---------------------------- MODULE Spec2Model ----------------------------
(***************************************************************************)
(* Model of the token-to-audio alignment engine of                         *)
(* src/apps/expert/data/annotation/transcribe.py.                          *)
(*                                                                         *)
(* The module holds several specifications over one set of variables:      *)
(*   Spec        Token Accumulator and Segment Filter under the decoder    *)
(*   SpecRepair  Timeline Repair (ensure_increasing_positions)             *)
(*   SpecSplit   Word Segmenter (split_tokens_on_unicode / _on_spaces)     *)
(*   SpecConf    Confidence Scorer (the compilation of the results)        *)
(*   SpecAlign   one call of perform_word_alignment, with its times        *)
(*   SpecBetween between_timestamps of speech_to_text.py                   *)
(*   SpecVideo   transcribe_video of speech_to_text.py                     *)
(*   SpecBias    the costs of perform_word_alignment before the DTW        *)
(*   SpecOutput  the end of transcribe_timestamped, after the alignment    *)
(*   SpecHooks   the hooks of _transcribe_timestamped_efficient            *)
(*   SpecPhrases get_phrases of speech_to_text.py                          *)
(* Each specification leaves the variables of the others at rest.          *)
(*                                                                         *)
(* Times are integers counted in half-hundredths of a second (0.005 s),    *)
(* so that round(x, 2) is a real operation: a value is "rounded" when it   *)
(* is even.  Python rounds the binary double, so a decimal tie (an odd     *)
(* value) goes down or up depending on the double's representation error;  *)
(* the direction is an input of the model (tie).                           *)
(***************************************************************************)
EXTENDS Integers, Sequences, FiniteSets, TLC

VARIABLES
    \* ---- get_phrases ----
    ph_words,       \* all_words: the words not taken yet
    ph_duration,    \* duration
    phrases,        \* phrases
    ph_elem,        \* elem: None as long as the name is not bound
    ph_input,       \* all_words as the caller gave it
    ph_status,      \* "none" | "returned" | the exception raised
    ppc,            \* "call" | "loop" | "done" | "error"
    \* ---- the hooks of _transcribe_timestamped_efficient ----
    model_hooks,    \* the forward hooks registered on the model
    all_hooks,      \* all_hooks: the handles of the hooks registered
    h_nblocks,      \* len(model.decoder.blocks)
    h_top_layers,   \* word_alignement_most_top_layers, None for float("inf")
    h_logits,       \* compute_word_confidence or no_speech_threshold is not None
    h_i,            \* i of the loop over the blocks
    h_j,            \* j of the loop over the blocks
    h_forward,      \* forward passes of the model made by model.transcribe
    h_exc,          \* the exception in flight, or "none"
    hpc,            \* "try" | "blocks" | "logits" | "transcribe" | "finally"
                    \* | "finalize" | "propagated"
    \* ---- the end of transcribe_timestamped ----
    out_segments,   \* transcription["segments"]
    out_words,      \* words
    out_refine,     \* refine_whisper_precision is not zero (set when read)
    out_min_duration,   \* min_word_duration, in 0.005 s (set when read)
    out_tie,        \* direction of round() on a decimal tie (set when read)
    out_input,      \* the segments and the words as line 187 returned them
    out_status,     \* "none" | "returned" | the exception raised
    opc,            \* "words" | "pruned" | "repaired" | "done" | "error"
    \* ---- the costs of perform_word_alignment ----
    weights,        \* the costs: tokens * frames, after line 1143
    w_refine,       \* refine_whisper_precision_nframes of the call
    w_max_duration, \* max_duration (line 1147-1151), or None
    w_start_token,  \* start_token, after the margin
    wpc,            \* "weights" | "limited" | "biased"
    \* ---- Timeline Repair ----
    segments,       \* the list handed to ensure_increasing_positions
    min_duration,   \* its min_duration argument, in 0.005 s
    tie,            \* direction of round() on a decimal tie
    rpc,            \* "input" | "repaired" | "failed" | "again" | "again_failed"
    repaired_once,  \* the list returned by the first call
    repair_input,   \* the list as it was handed to the first call
    after_pass,     \* the list after the first pass of the first call
    passes,         \* number of passes the first call made
    \* ---- Word Segmenter ----
    split_in,       \* the chunk token list handed to split_tokens
    use_space,      \* should_use_space(language)
    remove_punct,   \* remove_punctuation_from_words
    split_out,      \* what split_tokens returned
    spc,            \* "input" | "split"
    \* ---- options of transcribe_timestamped ----
    compute_word_confidence,
    no_speech_threshold,
    logprob_threshold,
    temperature,
    refine_whisper_precision_nframes,
    condition_on_previous_text,
    \* ---- closure state of _transcribe_timestamped_efficient ----
    segment_tokens,             \* finished chunks, then the token buffer
    segment_attweights,         \* attention rows of the buffer
    timestamped_word_segments,  \* word list of each finished chunk
    segment_logprobs,
    segment_avglogprobs,
    sot_index,
    no_speech_prob,
    chunk_logprobs,             \* logits vector of each pass of the 30 sec chunk
    chunk_tokens,
    chunk_tokens_nosot,
    last_token_fallback,
    has_started,
    saw_consecutive_timestamps,
    index_begin_30sec_chunck,
    handoff,        \* what the last flush handed to perform_word_alignment
    filt,           \* what the Segment Filter decided last
    accepted,       \* the 30 sec chunks that passed the Segment Filter
    err,            \* the exception that ended the run
    \* ---- the decoder ----
    pc,             \* "forward" | "embed" | "attn" | "logits" | "final" | "done" | "error"
    curr_tokens,    \* input of the running forward pass
    curr_at,        \* stream position of its last token
    fwd,            \* what the running pass yields: sampled token, its
                    \* log-probability, no-speech probability, stream position
    win,            \* number of 30 sec chunks begun
    pos,            \* number of tokens sampled
    sampled,        \* tokens sampled in the running 30 sec chunk
    sot_nsp,        \* the no-speech probability that the first pass of each
                    \* 30 sec chunk yields
    whisper_segments,   \* len(transcription["segments"]), once it is read
    \* ---- Confidence Scorer ----
    detect_disfluencies,
    include_punctuation_in_confidence,
    timestamped_words,  \* the words of the segment being compiled
    seg_logprobs,       \* logprobs, its entry of segment_logprobs
    segment_confidence, \* segment["confidence"]
    logprobs_nopunc,
    i_end,
    i_word,             \* number of words the loop has done
    cpc,                \* "segment" | "words" | "done" | "error"
    \* ---- perform_word_alignment ----
    al_call,        \* the tokens the caller handed over
    al_tokens,      \* tokens (of the running call)
    al_unfinished,  \* unfinished_decoding
    al_refine,      \* refine_whisper_precision_nframes
    al_detect,      \* detect_disfluencies
    al_start,       \* start_token, after the margin
    al_end,         \* end_token, after the margin
    al_jumps,       \* jumps
    al_jumps_start, \* jumps_start
    al_disfluences, \* disfluences: token index -> [begin, end]
    al_i_token,     \* i_token of the loop over the tokens
    al_retries,     \* number of recursive calls
    al_out,         \* what the call returned or raised
    apc,            \* "call" | "split" | "dtw" | "peaks" | "words" | "done"
    \* ---- between_timestamps ----
    all_words,      \* the words, each with start, end and text
    bt_start,       \* start
    bt_end,         \* end
    bt_out,         \* the texts returned (joined by " "), or the exception
    bpc,            \* "call" | "done"
    \* ---- transcribe_video ----
    tv_lang,        \* lang
    tv_model,       \* model, as the caller gave it
    tv_device,      \* device
    tv_loaded,      \* the WhisperModel built: its size and device, or None
    tv_language,    \* the language handed to model.transcribe, or None
    tv_segments,    \* the segments the model yields: does the text end a sentence
    tv_i,           \* number of segments consumed
    cur_sentence,   \* segments of the sentence being gathered
    cur_time_start,
    transcription,  \* the sentences and the stamps gathered
    tv_status,      \* "running" | "returned" | "NotImplementedError"
    vpc             \* "call" | "transcribe" | "segments" | "done"

repairVars ==
    <<segments, min_duration, tie, rpc, repaired_once, repair_input, after_pass,
      passes>>

splitVars == <<split_in, use_space, remove_punct, split_out, spc>>

configVars ==
    <<compute_word_confidence, no_speech_threshold, logprob_threshold,
      temperature, refine_whisper_precision_nframes, condition_on_previous_text>>

closureVars ==
    <<segment_tokens, segment_attweights, timestamped_word_segments,
      segment_logprobs, segment_avglogprobs, sot_index, no_speech_prob,
      chunk_logprobs, chunk_tokens, chunk_tokens_nosot, last_token_fallback,
      has_started, saw_consecutive_timestamps, index_begin_30sec_chunck,
      handoff, filt, accepted, err>>

envVars ==
    <<curr_tokens, curr_at, fwd, win, pos, sampled, sot_nsp, whisper_segments>>

accVars == <<configVars, closureVars, pc, envVars>>

confVars ==
    <<detect_disfluencies, include_punctuation_in_confidence, timestamped_words,
      seg_logprobs, segment_confidence, logprobs_nopunc, i_end, i_word, cpc>>

alignVars ==
    <<al_call, al_tokens, al_unfinished, al_refine, al_detect, al_start, al_end,
      al_jumps, al_jumps_start, al_disfluences, al_i_token, al_retries, al_out,
      apc>>

betweenVars == <<all_words, bt_start, bt_end, bt_out, bpc>>

videoVars ==
    <<tv_lang, tv_model, tv_device, tv_loaded, tv_language, tv_segments, tv_i,
      cur_sentence, cur_time_start, transcription, tv_status, vpc>>

biasVars == <<weights, w_refine, w_max_duration, w_start_token, wpc>>

outputVars ==
    <<out_segments, out_words, out_refine, out_min_duration, out_tie,
      out_input, out_status, opc>>

hooksVars ==
    <<model_hooks, all_hooks, h_nblocks, h_top_layers, h_logits, h_i, h_j,
      h_forward, h_exc, hpc>>

phrasesVars ==
    <<ph_words, ph_duration, phrases, ph_elem, ph_input, ph_status, ppc>>

vars ==
    <<repairVars, splitVars, accVars, confVars, alignVars, betweenVars,
      videoVars, biasVars, outputVars, hooksVars, phrasesVars>>

\* What each specification leaves at rest.
notRepair ==
    <<splitVars, accVars, confVars, alignVars, betweenVars, videoVars,
      biasVars, outputVars, hooksVars, phrasesVars>>
notSplit ==
    <<repairVars, accVars, confVars, alignVars, betweenVars, videoVars,
      biasVars, outputVars, hooksVars, phrasesVars>>
notAcc ==
    <<repairVars, splitVars, confVars, alignVars, betweenVars, videoVars,
      biasVars, outputVars, hooksVars, phrasesVars>>
notConf ==
    <<repairVars, splitVars, accVars, alignVars, betweenVars, videoVars,
      biasVars, outputVars, hooksVars, phrasesVars>>
notAlign ==
    <<repairVars, splitVars, accVars, confVars, betweenVars, videoVars,
      biasVars, outputVars, hooksVars, phrasesVars>>
notBetween ==
    <<repairVars, splitVars, accVars, confVars, alignVars, videoVars,
      biasVars, outputVars, hooksVars, phrasesVars>>
notVideo ==
    <<repairVars, splitVars, accVars, confVars, alignVars, betweenVars,
      biasVars, outputVars, hooksVars, phrasesVars>>
notBias ==
    <<repairVars, splitVars, accVars, confVars, alignVars, betweenVars,
      videoVars, outputVars, hooksVars, phrasesVars>>
notOutput ==
    <<repairVars, splitVars, accVars, confVars, alignVars, betweenVars,
      videoVars, biasVars, hooksVars, phrasesVars>>
notHooks ==
    <<repairVars, splitVars, accVars, confVars, alignVars, betweenVars,
      videoVars, biasVars, outputVars, phrasesVars>>
notPhrases ==
    <<repairVars, splitVars, accVars, confVars, alignVars, betweenVars,
      videoVars, biasVars, outputVars, hooksVars>>

PhrasesIdle ==
    /\ ph_words = <<>>
    /\ ph_duration = 0
    /\ phrases = <<>>
    /\ ph_elem = <<>>
    /\ ph_input = <<>>
    /\ ph_status = "none"
    /\ ppc = "idle"

HooksIdle ==
    /\ model_hooks = {}
    /\ all_hooks = <<>>
    /\ h_nblocks = 0
    /\ h_top_layers = <<>>
    /\ h_logits = FALSE
    /\ h_i = 0
    /\ h_j = 0
    /\ h_forward = 0
    /\ h_exc = "none"
    /\ hpc = "idle"

OutputIdle ==
    /\ out_segments = <<>>
    /\ out_words = <<>>
    /\ out_refine = FALSE
    /\ out_min_duration = 0
    /\ out_tie = "down"
    /\ out_input = [segments |-> <<>>, words |-> <<>>]
    /\ out_status = "none"
    /\ opc = "idle"

BiasIdle ==
    /\ weights = <<>>
    /\ w_refine = 0
    /\ w_max_duration = <<>>
    /\ w_start_token = 0
    /\ wpc = "idle"

---------------------------------------------------------------------------
\* Bounds of the model.
MaxSegs == 2        \* longest list handed to Timeline Repair
MaxTime == 3        \* largest input time, in hundredths of a second
MaxMinDur == 3      \* largest min_duration, in 0.005 s
MaxPasses == 3      \* depth of the recursion of ensure_increasing_positions
MaxTs == 6          \* index of the last timestamp token (N_FRAMES // 2, scaled)
MaxSplitLen == 4    \* longest token list handed to the Word Segmenter
MaxTokens == 9      \* number of tokens the decoder samples over the audio
MaxWords == 3       \* most words of a segment handed to the Confidence Scorer
MaxAlignText == 2   \* most text tokens of a chunk handed to perform_word_alignment
MaxBetweenWords == 3    \* longest word list handed to between_timestamps
MaxBetweenTime == 4     \* largest time handed to between_timestamps
MaxVideoSegs == 3       \* most segments the model yields to transcribe_video
MaxWhisperSegments == 2 \* most segments of the transcription of model.transcribe

Ties == {"down", "up", "even"}

(***************************************************************************)
(* The vocabulary.  Text tokens lie below tokenizer.eot, the special       *)
(* tokens from eot on, the timestamp tokens from timestamp_begin to the    *)
(* end of the vocabulary.  One text token stands for each kind of decoded  *)
(* text the code tells apart.                                              *)
(***************************************************************************)
T_WORD == 0         \* " a": a piece that begins with a space
T_CONT == 1         \* "b": a piece that continues a word
T_PUNCT == 2        \* ",": a punctuation mark
T_FRAG_A == 3       \* first bytes of a multi-byte character ("\ufffd" alone)
T_FRAG_B == 4       \* last bytes of that character ("\ufffd" alone)
EOT == 5            \* tokenizer.eot
SOT == 6            \* tokenizer.sot
TRANSCRIBE == 7     \* tokenizer.sot_sequence[-1]
SOT_PREV == 8       \* tokenizer.sot_prev
TS_BEGIN == 9       \* tokenizer.timestamp_begin

TextTokens == {T_WORD, T_CONT, T_PUNCT, T_FRAG_A, T_FRAG_B}
Timestamps == {TS_BEGIN + k : k \in 0..MaxTs}
LastToken == TS_BEGIN + MaxTs       \* the last index of a logits vector

Last(s) == s[Len(s)]
Front(s) == SubSeq(s, 1, Len(s) - 1)
Rest(s) == SubSeq(s, 2, Len(s))
Min2(a, b) == IF a < b THEN a ELSE b
Max2(a, b) == IF a > b THEN a ELSE b

---------------------------------------------------------------------------
(***************************************************************************)
(* Timeline Repair.                                                        *)
(***************************************************************************)

\* round(x, 2) of a time x given in 0.005 s.
Round2(x, t) ==
    IF x % 2 = 0 THEN x
    ELSE IF t = "down" THEN x - 1
    ELSE IF t = "up" THEN x + 1
    ELSE IF ((x - 1) \div 2) % 2 = 0 THEN x - 1 ELSE x + 1

\* A mid point that is the previous end.
TakePreviousEnd(a, b, t) == a

\* round((a + b) / 2, 2): the half sum lies on a quarter-hundredth grid.
RoundMid(a, b, t) ==
    LET s == a + b
        r == s % 4
    IN  IF r = 0 THEN s \div 2
        ELSE IF r = 1 THEN (s - 1) \div 2
        ELSE IF r = 3 THEN (s + 1) \div 2
        ELSE IF t = "down" THEN (s - 2) \div 2
        ELSE IF t = "up" THEN (s + 2) \div 2
        ELSE IF ((s - 2) \div 4) % 2 = 0 THEN (s - 2) \div 2 ELSE (s + 2) \div 2

\* One forward pass over the list, from index i on (1-based).
\* st = [segs, previous_end, modified, err]
RECURSIVE RepairPass(_, _, _, _)
RepairPass(st, i, md, t) ==
    IF st.err \/ i > Len(st.segs) THEN st
    ELSE
      LET segs == st.segs
          seg == segs[i]
          overlap == seg.start < st.previous_end
      IN  IF overlap /\ i = 1
          THEN [st EXCEPT !.err = TRUE]                 \* assert i > 0
          ELSE
            LET mid == IF overlap THEN RoundMid(st.previous_end, seg.start, t)
                       ELSE seg.start
                floor_hit == overlap /\ mid < segs[i - 1].start + md
                new_start == IF ~overlap THEN seg.start
                             ELSE IF floor_hit THEN st.previous_end ELSE mid
                back == overlap /\ ~floor_hit
                segs1 == IF back
                         THEN [segs EXCEPT ![i - 1].end = new_start]
                         ELSE segs
                new_end == IF seg.end <= new_start + md
                           THEN new_start + md ELSE seg.end
                segs2 == [segs1 EXCEPT ![i] = [start |-> new_start, end |-> new_end]]
            IN  RepairPass([segs |-> segs2,
                            previous_end |-> new_end,
                            modified |-> st.modified \/ back,
                            err |-> FALSE], i + 1, md, t)

\* The first pass of a call on the list segs.
FirstPass(segs, md, t) ==
    RepairPass([segs |-> segs, previous_end |-> 0,
                modified |-> FALSE, err |-> FALSE], 1, md, t)

\* The rounded list.
RoundAll(segs, t) ==
    [i \in 1..Len(segs) |->
        [start |-> Round2(segs[i].start, t), end |-> Round2(segs[i].end, t)]]

\* The assertion on starts of the closing loop.
StartsAfterPrevious(r) ==
    \A i \in 1..Len(r) : r[i].start >= (IF i = 1 THEN 0 ELSE r[i - 1].end)

\* A closing assertion that lets a null duration through.
EndsNotBeforeStart(r) ==
    \A i \in 1..Len(r) : r[i].end >= r[i].start

\* The assertion on durations of the closing loop.
EndsAfterStart(r) ==
    \A i \in 1..Len(r) : r[i].end > r[i].start

\* The closing loop: round every boundary and assert the result.
FinalCheck(segs, t) ==
    LET r == RoundAll(segs, t)
    IN  IF StartsAfterPrevious(r) /\ EndsAfterStart(r)
        THEN [status |-> "ok", segs |-> r, passes |-> 1]
        ELSE [status |-> "assert", segs |-> r, passes |-> 1]

\* ensure_increasing_positions that goes on as long as it has fuel.
RECURSIVE repair_while_fuel(_, _, _, _)
repair_while_fuel(segs, md, t, fuel) ==
    LET p == FirstPass(segs, md, t)
    IN  IF p.err THEN [status |-> "assert", segs |-> p.segs, passes |-> 1]
        ELSE IF fuel = 0
        THEN IF p.modified
             THEN [status |-> "recursion", segs |-> p.segs, passes |-> 1]
             ELSE FinalCheck(p.segs, t)
        ELSE [repair_while_fuel(p.segs, md, t, fuel - 1) EXCEPT !.passes = @ + 1]

\* ensure_increasing_positions(segments, min_duration); fuel bounds the recursion.
RECURSIVE ensure_increasing_positions(_, _, _, _)
ensure_increasing_positions(segs, md, t, fuel) ==
    LET p == RepairPass([segs |-> segs, previous_end |-> 0,
                         modified |-> FALSE, err |-> FALSE], 1, md, t)
    IN  IF p.err THEN [status |-> "assert", segs |-> p.segs, passes |-> 1]
        ELSE IF p.modified
        THEN IF fuel = 0
             THEN [status |-> "recursion", segs |-> p.segs, passes |-> 1]
             ELSE [ensure_increasing_positions(p.segs, md, t, fuel - 1)
                       EXCEPT !.passes = @ + 1]
        ELSE FinalCheck(p.segs, t)

\* Word times are rounded to hundredths when the words are built.
InputTimes == {2 * c : c \in 0..MaxTime}
InputSeg == [start : InputTimes, end : InputTimes]
InputLists == UNION {[1..n -> InputSeg] : n \in 0..MaxSegs}

None == <<>>
Some(v) == <<v>>

NoHandoff == [win |-> 0, chunk |-> <<>>, rows |-> <<>>, unfinished |-> FALSE,
              last_token_reliable |-> TRUE,
              at_sot |-> FALSE, handed |-> FALSE, outcome |-> "none"]
NoFilt == [win |-> 0, should_skip |-> FALSE, i_start |-> 0, n_segments |-> 0,
           added |-> 0,
           no_speech_prob |-> None,
           stats |-> [sum |-> 0, n |-> 0, known |-> FALSE]]
NoForward == [tok |-> EOT, nsp |-> 0, at |-> 0]

\* lines 258-284, 313, 350
Closures0 ==
    /\ segment_tokens = <<<<>>>>
    /\ segment_attweights = <<>>
    /\ timestamped_word_segments = <<>>
    /\ segment_logprobs = <<>>
    /\ segment_avglogprobs = <<>>
    /\ sot_index = None
    /\ no_speech_prob = None
    /\ chunk_logprobs = <<>>
    /\ chunk_tokens = <<>>
    /\ chunk_tokens_nosot = <<>>
    /\ last_token_fallback = None
    /\ has_started = FALSE
    /\ saw_consecutive_timestamps = FALSE
    /\ index_begin_30sec_chunck = 0
    /\ handoff = NoHandoff
    /\ filt = NoFilt
    /\ accepted = {}
    /\ err = "none"
    /\ curr_tokens = <<>>
    /\ curr_at = 0
    /\ fwd = NoForward
    /\ win = 0
    /\ pos = 0
    /\ sampled = <<>>
    /\ sot_nsp = <<>>
    /\ whisper_segments = None

AccIdle ==
    /\ compute_word_confidence = FALSE
    /\ no_speech_threshold = None
    /\ logprob_threshold = None
    /\ temperature = 0
    /\ refine_whisper_precision_nframes = 0
    /\ condition_on_previous_text = FALSE
    /\ Closures0
    /\ pc = "idle"

NoTranscription == [stamps |-> <<>>, sentences |-> <<>>]

VideoIdle ==
    /\ tv_lang = "en"
    /\ tv_model = "server"
    /\ tv_device = None
    /\ tv_loaded = None
    /\ tv_language = None
    /\ tv_segments = <<>>
    /\ tv_i = 0
    /\ cur_sentence = <<>>
    /\ cur_time_start = 0
    /\ transcription = NoTranscription
    /\ tv_status = "idle"
    /\ vpc = "idle"

BetweenIdle ==
    /\ all_words = <<>>
    /\ bt_start = 0
    /\ bt_end = 0
    /\ bt_out = [status |-> "none", words |-> <<>>]
    /\ bpc = "idle"

NoAlignment == [status |-> "none", words |-> <<>>]

AlignIdle ==
    /\ al_call = <<>>
    /\ al_tokens = <<>>
    /\ al_unfinished = FALSE
    /\ al_refine = 0
    /\ al_detect = FALSE
    /\ al_start = 0
    /\ al_end = 0
    /\ al_jumps = <<>>
    /\ al_jumps_start = <<>>
    /\ al_disfluences = <<>>
    /\ al_i_token = 0
    /\ al_retries = 0
    /\ al_out = NoAlignment
    /\ apc = "idle"

ConfIdle ==
    /\ detect_disfluencies = FALSE
    /\ include_punctuation_in_confidence = FALSE
    /\ timestamped_words = <<>>
    /\ seg_logprobs = <<>>
    /\ segment_confidence = None
    /\ logprobs_nopunc = <<>>
    /\ i_end = 0
    /\ i_word = 0
    /\ cpc = "idle"

RepairIdle ==
    /\ segments = <<>>
    /\ min_duration = 0
    /\ tie = "down"
    /\ rpc = "idle"
    /\ repaired_once = <<>>
    /\ repair_input = <<>>
    /\ after_pass = <<>>
    /\ passes = 0

SplitIdle ==
    /\ split_in = <<>>
    /\ use_space = TRUE
    /\ remove_punct = FALSE
    /\ split_out = [status |-> "none"]
    /\ spc = "idle"

InitRepair ==
    /\ PhrasesIdle
    /\ HooksIdle
    /\ OutputIdle
    /\ BiasIdle
    /\ SplitIdle
    /\ AccIdle
    /\ ConfIdle
    /\ AlignIdle
    /\ BetweenIdle
    /\ VideoIdle
    /\ segments \in InputLists
    /\ min_duration \in 0..MaxMinDur
    /\ tie \in Ties
    /\ rpc = "input"
    /\ repaired_once = <<>>
    /\ repair_input = segments
    /\ after_pass = <<>>
    /\ passes = 0

\* transcribe_timestamped: ensure_increasing_positions(words, min_word_duration)
Repair ==
    /\ rpc = "input"
    /\ LET r == ensure_increasing_positions(segments, min_duration, tie, MaxPasses)
       IN  /\ segments' = r.segs
           /\ rpc' = IF r.status = "ok" THEN "repaired" ELSE "failed"
           /\ repaired_once' = IF r.status = "ok" THEN r.segs ELSE <<>>
           /\ passes' = r.passes
    /\ after_pass' = FirstPass(segments, min_duration, tie).segs
    /\ UNCHANGED <<min_duration, tie, repair_input, notRepair>>

\* A second call on the list the first call returned.
RepairAgain ==
    /\ rpc = "repaired"
    /\ LET r == ensure_increasing_positions(segments, min_duration, tie, MaxPasses)
       IN  /\ segments' = r.segs
           /\ rpc' = IF r.status = "ok" THEN "again" ELSE "again_failed"
    /\ UNCHANGED <<min_duration, tie, repaired_once, repair_input, after_pass,
                   passes, notRepair>>

NextRepair == Repair \/ RepairAgain

SpecRepair == InitRepair /\ [][NextRepair]_vars

Monotone(segs) ==
    \A i \in 1..Len(segs) :
        /\ segs[i].end > segs[i].start
        /\ i > 1 => segs[i - 1].end <= segs[i].start

\* C1: a list returned by Timeline Repair has end > start for every element
\* and previous.end <= next.start for every adjacent pair.
C1_RepairedIsMonotone ==
    rpc = "repaired" => Monotone(segments)

\* Two overlapping elements, one of null duration, were repaired.
C1_Witness ==
    /\ rpc = "repaired"
    /\ Len(repair_input) = 2
    /\ repair_input[2].start < repair_input[1].end
    /\ repair_input[2].end = repair_input[2].start

\* C2: a second call with the same min_duration returns the list unchanged.
C2_Idempotent ==
    rpc \in {"again", "again_failed"} =>
        (rpc = "again" /\ segments = repaired_once)

\* The part of C2 the code keeps: min_duration a multiple of 0.01 s.
C2_IdempotentOnGrid ==
    (rpc \in {"again", "again_failed"} /\ min_duration % 2 = 0) =>
        (rpc = "again" /\ segments = repaired_once)

\* C35: after Timeline Repair with min_duration d, every element lasts d or
\* more, the elements whose end was moved back to a mid point included.
C35_RepairedLastMinDuration ==
    rpc = "repaired" =>
        \A i \in 1..Len(segments) :
            segments[i].end - segments[i].start >= min_duration

\* What the code keeps: with min_duration a multiple of 0.01 s, every element
\* lasts min_duration or more; with any min_duration, more than nothing.
C35_RepairedLastMinDurationOnGrid ==
    rpc = "repaired" =>
        \A i \in 1..Len(segments) :
            /\ segments[i].end > segments[i].start
            /\ min_duration % 2 = 0 =>
                   segments[i].end - segments[i].start >= min_duration

\* The pass of the first call, when it comes to element i: the elements
\* before it as the pass has left them.
Before(i) == FirstPass(SubSeq(repair_input, 1, i - 1), min_duration, tie).segs

\* The hundredths of a second nearest to the mid point of a and b.
NearestToMid(a, b) ==
    {m \in 0..(2 * MaxTime + MaxMinDur * MaxSegs) :
        m % 2 = 0 /\ 2 * m - (a + b) \in -2..2}

\* Element i overlaps the one before it and the pass has split the overlap
\* at the mid point m, or resolved it to the previous end.
SplitAt(i, m) ==
    LET prev == Before(i)[i - 1]
    IN  IF m >= prev.start + min_duration
        THEN after_pass[i - 1].end = m /\ after_pass[i].start = m
        ELSE /\ after_pass[i - 1].end = prev.end
             /\ after_pass[i].start = prev.end

Overlaps(i) == repair_input[i].start < Before(i)[i - 1].end

MovedBackward ==
    \E i \in 2..Len(repair_input) :
        /\ Overlaps(i)
        /\ after_pass[i - 1].end = after_pass[i].start
        /\ after_pass[i].start \in
               NearestToMid(Before(i)[i - 1].end, repair_input[i].start)

\* C22: Timeline Repair terminates: a pass is run again only when the pass
\* before it moved some end back, and the pass after that one moves nothing:
\* the call makes one pass, or two.
C22_RepairReachesFixedPoint ==
    rpc # "input" =>
        /\ passes \in 1..2
        /\ passes = 2 => MovedBackward

\* A call that made a second pass.
C22_Witness ==
    /\ rpc = "repaired"
    /\ passes = 2
    /\ Len(repair_input) = 2
    /\ after_pass[1].end < repair_input[1].end
    /\ segments = after_pass

---------------------------------------------------------------------------
(***************************************************************************)
(* Word Segmenter.  A decoded text is a sequence of glyphs: " ", "a",      *)
(* "b", ",", "e" (the multi-byte character), "?" (U+FFFD) and "<" (the     *)
(* text "<|...|>" of a special or timestamp token).                        *)
(***************************************************************************)

\* tokenizer.decode_with_timestamps(tokens)
RECURSIVE decode_with_timestamps(_)
decode_with_timestamps(toks) ==
    IF toks = <<>> THEN <<>>
    ELSE LET t == Head(toks)
         IN  IF t = T_FRAG_A /\ Len(toks) > 1 /\ toks[2] = T_FRAG_B
             THEN <<"e">> \o decode_with_timestamps(SubSeq(toks, 3, Len(toks)))
             ELSE (IF t = T_WORD THEN <<" ", "a">>
                   ELSE IF t = T_CONT THEN <<"b">>
                   ELSE IF t = T_PUNCT THEN <<",">>
                   ELSE IF t \in {T_FRAG_A, T_FRAG_B} THEN <<"?">>
                   ELSE <<"<">>) \o decode_with_timestamps(Tail(toks))

RECURSIVE LStrip(_)
LStrip(s) == IF s # <<>> /\ Head(s) = " " THEN LStrip(Tail(s)) ELSE s

RECURSIVE RStrip(_)
RStrip(s) == IF s # <<>> /\ Last(s) = " " THEN RStrip(Front(s)) ELSE s

\* str.strip()
Strip(s) == RStrip(LStrip(s))

\* s in _punctuation, for a str s: the empty string is in every string.
InPunctuation(s) == s = <<>> \/ s = <<",">>

HasReplacementChar(s) == \E i \in 1..Len(s) : s[i] = "?"

\* The three lists split_tokens returns, and whether it raised.
NoWords == [words |-> <<>>, word_tokens |-> <<>>, word_tokens_indices |-> <<>>,
            status |-> "ok"]

\* split_tokens_on_unicode: the loop from token i on, cur = current_tokens.
RECURSIVE UnicodeLoop(_, _, _, _, _)
UnicodeLoop(st, cur, toks, i, rm) ==
    IF st.status # "ok" \/ i > Len(toks) THEN st
    ELSE
      LET current == Append(cur, toks[i])
          decoded == decode_with_timestamps(current)
          wti == st.word_tokens_indices
          n == Len(st.words)
      IN  IF HasReplacementChar(decoded)
          THEN UnicodeLoop(st, current, toks, i + 1, rm)
          ELSE
            LET punctuation == Strip(decoded) # <<>> /\ InPunctuation(Strip(decoded))
                previous_special == Len(wti) > 0 /\ Last(Last(wti)) >= EOT
            IN  IF punctuation /\ ~previous_special
                THEN IF Len(wti) = 0
                     THEN [st EXCEPT !.status = "IndexError"]
                     ELSE UnicodeLoop(
                            [words |-> IF rm THEN st.words
                                       ELSE [st.words EXCEPT ![n] = @ \o decoded],
                             word_tokens |->
                                [st.word_tokens EXCEPT ![n] = Append(@, decoded)],
                             word_tokens_indices |->
                                [wti EXCEPT ![Len(wti)] = @ \o current],
                             status |-> "ok"],
                            <<>>, toks, i + 1, rm)
                ELSE UnicodeLoop(
                            [words |-> Append(st.words, decoded),
                             word_tokens |-> Append(st.word_tokens, <<decoded>>),
                             word_tokens_indices |-> Append(wti, current),
                             status |-> "ok"],
                            <<>>, toks, i + 1, rm)

split_tokens_on_unicode(toks, rm) == UnicodeLoop(NoWords, <<>>, toks, 1, rm)

\* split_tokens_on_spaces: the loop from subword i on.
RECURSIVE SpacesLoop(_, _, _)
SpacesLoop(st, sub, i) ==
    IF st.status # "ok" \/ i > Len(sub.words) THEN st
    ELSE
      LET subword == sub.words[i]
          special == sub.word_tokens_indices[i][1] >= EOT
          previous_special == i > 1 /\ sub.word_tokens_indices[i - 1][1] >= EOT
          with_space == subword # <<>> /\ Head(subword) = " "
          punctuation == InPunctuation(Strip(subword))
          n == Len(st.words)
      IN  IF special \/ (with_space /\ ~punctuation) \/ previous_special
          THEN SpacesLoop(
                 [words |-> Append(st.words, Strip(subword)),
                  word_tokens |-> Append(st.word_tokens, sub.word_tokens[i]),
                  word_tokens_indices |->
                     Append(st.word_tokens_indices, sub.word_tokens_indices[i]),
                  status |-> "ok"], sub, i + 1)
          ELSE IF n = 0 THEN [st EXCEPT !.status = "IndexError"]
          ELSE SpacesLoop(
                 [words |-> [st.words EXCEPT ![n] = @ \o Strip(subword)],
                  word_tokens |->
                     [st.word_tokens EXCEPT ![n] = @ \o sub.word_tokens[i]],
                  word_tokens_indices |->
                     [st.word_tokens_indices EXCEPT
                        ![n] = @ \o sub.word_tokens_indices[i]],
                  status |-> "ok"], sub, i + 1)

\* split_tokens_on_spaces with the punctuation always removed from the words.
split_tokens_without_punctuation(toks, rm) ==
    LET sub == split_tokens_on_unicode(toks, TRUE)
    IN  IF sub.status # "ok" THEN sub ELSE SpacesLoop(NoWords, sub, 1)

split_tokens_on_spaces(toks, rm) ==
    LET sub == split_tokens_on_unicode(toks, rm)
    IN  IF sub.status # "ok" THEN sub ELSE SpacesLoop(NoWords, sub, 1)

\* perform_word_alignment: split_tokens = ... if use_space else ...
split_tokens(toks, space, rm) ==
    IF space THEN split_tokens_on_spaces(toks, rm)
    ELSE split_tokens_on_unicode(toks, rm)

RECURSIVE Concat(_)
Concat(ss) == IF ss = <<>> THEN <<>> ELSE Head(ss) \o Concat(Tail(ss))

\* A chunk's token list opens with its start timestamp.
ChunkTokens == TextTokens \cup {TS_BEGIN, TS_BEGIN + 1}
ChunkLists ==
    UNION {{<<TS_BEGIN>> \o body : body \in [1..n -> ChunkTokens]} :
           n \in 0..(MaxSplitLen - 1)}

InitSplit ==
    /\ PhrasesIdle
    /\ HooksIdle
    /\ OutputIdle
    /\ BiasIdle
    /\ RepairIdle
    /\ AccIdle
    /\ ConfIdle
    /\ AlignIdle
    /\ BetweenIdle
    /\ VideoIdle
    /\ split_in \in ChunkLists
    /\ use_space \in BOOLEAN
    /\ remove_punct \in BOOLEAN
    /\ split_out = [status |-> "none"]
    /\ spc = "input"

\* perform_word_alignment hands the chunk's tokens to the Word Segmenter.
Split ==
    /\ spc = "input"
    /\ split_out' = split_tokens(split_in, use_space, remove_punct)
    /\ spc' = "split"
    /\ UNCHANGED <<split_in, use_space, remove_punct, notSplit>>

NextSplit == Split

SpecSplit == InitSplit /\ [][NextSplit]_vars

\* C10: the token-id lists of the words, concatenated in word order, are the
\* chunk's token list (under the space policy and the boundary-glyph policy).
C10_WordsPartitionTokens ==
    spc = "split" =>
        /\ split_out.status = "ok"
        /\ Concat(split_out.word_tokens_indices) = split_in

\* What the code keeps of C10: the words' token ids are a prefix of the
\* chunk's tokens, and all of them when every decoded character is whole.
C10_WordsArePrefix ==
    (spc = "split" /\ split_out.status = "ok") =>
        LET ids == Concat(split_out.word_tokens_indices)
        IN  /\ Len(ids) <= Len(split_in)
            /\ ids = SubSeq(split_in, 1, Len(ids))
            /\ ~HasReplacementChar(decode_with_timestamps(split_in))
                    => ids = split_in

\* The token at place i of toks starts a word: it is special, the token
\* before it is special, or its text begins with a space and is not a
\* punctuation mark alone.
StartsWord(toks, i) ==
    LET decoded == decode_with_timestamps(<<toks[i]>>)
    IN  \/ toks[i] >= EOT
        \/ i > 1 /\ toks[i - 1] >= EOT
        \/ /\ decoded # <<>> /\ Head(decoded) = " "
           /\ ~(Strip(decoded) # <<>> /\ InPunctuation(Strip(decoded)))

\* The words of toks[1..i] when every token that starts a word opens one and
\* every other token joins the word before it.
RECURSIVE WordsBySpaces(_, _)
WordsBySpaces(toks, i) ==
    IF i = 0 THEN <<>>
    ELSE LET before == WordsBySpaces(toks, i - 1)
         IN  IF StartsWord(toks, i) \/ before = <<>>
             THEN Append(before, <<toks[i]>>)
             ELSE [before EXCEPT ![Len(before)] = Append(@, toks[i])]

\* C31: under the space policy a token starts a word when it is special,
\* when the token before it is special, or when its text begins with a space
\* and is not a punctuation mark alone; every other token joins the word
\* before it, so that each timestamp is a word of its own.
C31_SpacePolicyBoundaries ==
    (spc = "split" /\ use_space) =>
        /\ split_out.status = "ok"
        /\ split_out.word_tokens_indices = WordsBySpaces(split_in, Len(split_in))

\* C31, what the code keeps: the same for the tokens up to the first
\* character that is not whole; the tokens from there on are in no word.
C31_SpacePolicyBoundariesOfWholeCharacters ==
    (spc = "split" /\ use_space) =>
        /\ split_out.status = "ok"
        /\ LET n == Len(Concat(split_out.word_tokens_indices))
           IN  /\ n <= Len(split_in)
               /\ split_out.word_tokens_indices = WordsBySpaces(split_in, n)
               /\ ~HasReplacementChar(decode_with_timestamps(split_in))
                       => n = Len(split_in)

\* The recognized text of a segment: its tokens below <|endoftext|>, decoded.
TextOf(toks) == decode_with_timestamps(SelectSeq(toks, LAMBDA t : t < EOT))

\* The texts of the words perform_word_alignment returns (lines 1275-1287):
\* the words that do not start with "<|".
RECURSIVE WordTexts(_)
WordTexts(ws) ==
    IF ws = <<>> THEN <<>>
    ELSE (IF Head(ws) # <<>> /\ Head(Head(ws)) = "<" THEN <<>> ELSE <<Head(ws)>>)
         \o WordTexts(Tail(ws))

NoSpaces(s) == SelectSeq(s, LAMBDA c : c # " ")

---------------------------------------------------------------------------
(***************************************************************************)
(* The decoder, as the hooks see it: model.transcribe decodes the audio in *)
(* 30 sec chunks; each forward pass of the text decoder fires the hook on  *)
(* the input tokens, then the hook on the attention weights, then the hook *)
(* on the output logits, and a token is sampled from the logits.  The      *)
(* first pass of a chunk is fed the prompt, each later pass the token      *)
(* sampled by the pass before; the chunk ends on <|endoftext|> or after    *)
(* max_sample_len passes, and the token sampled last is never fed.         *)
(***************************************************************************)

max_sample_len == 8
n_ctx == 2 * max_sample_len
is_multilingual == TRUE

\* log-probability of the argmax when another token was sampled, and of a
\* token that was not sampled
LP_TOP == 0
LP_OTHER == -3

NoSpeechProbs == {1, 2}
LogProbs == {-2, -1, 0}

\* The tokens the decoder samples from.
DecoderText == {T_WORD}
DecoderTimestamps == {TS_BEGIN, TS_BEGIN + MaxTs}
\* max_initial_timestamp: the first timestamp of a chunk lies in its first second
InitialTimestamps == {TS_BEGIN}

\* ApplyTimestampRules: the tokens the logit filter leaves after seq.
NextAllowed(seq) ==
    LET n == Len(seq)
        last_was_timestamp == n >= 1 /\ seq[n] >= TS_BEGIN
        penultimate_was_timestamp == n < 2 \/ seq[n - 1] >= TS_BEGIN
    IN  IF n = 0 THEN InitialTimestamps
        ELSE IF last_was_timestamp
        THEN IF penultimate_was_timestamp
             THEN DecoderText \cup {EOT}
             ELSE DecoderTimestamps \cup {EOT}
        ELSE DecoderText \cup DecoderTimestamps \cup {EOT}

\* The decoding loop of a 30 sec chunk is over.
ChunkEnded(seq) ==
    seq # <<>> /\ (Last(seq) = EOT \/ Len(seq) >= max_sample_len)

---------------------------------------------------------------------------
(***************************************************************************)
(* Token Accumulator and Segment Filter: the closures of                   *)
(* _transcribe_timestamped_efficient, driven by the forward passes of      *)
(* model.transcribe.  The model covers trust_whisper_timestamps = True     *)
(* (the default), one attention layer, a multilingual model, a scalar      *)
(* temperature and detect_disfluencies = False (the default); word times   *)
(* are left out of the words the Alignment Engine returns here.            *)
(*                                                                         *)
(* A buffered token is a record [id, at]: its token id and the position    *)
(* of the occurrence in the stream of sampled tokens (0 for the tokens of  *)
(* the prompt).  An attention row is named by the position of the token    *)
(* its forward pass predicts.  An optional value is <<>> (None) or <<v>>.  *)
(***************************************************************************)

Tok(i, p) == [id |-> i, at |-> p]
Ids(toks) == [k \in 1..Len(toks) |-> toks[k].id]
Ats(toks) == [k \in 1..Len(toks) |-> toks[k].at]

\* The closure state of _transcribe_timestamped_efficient as one record.
State ==
    [segment_tokens |-> segment_tokens,
     segment_attweights |-> segment_attweights,
     timestamped_word_segments |-> timestamped_word_segments,
     segment_logprobs |-> segment_logprobs,
     segment_avglogprobs |-> segment_avglogprobs,
     sot_index |-> sot_index,
     no_speech_prob |-> no_speech_prob,
     chunk_logprobs |-> chunk_logprobs,
     chunk_tokens |-> chunk_tokens,
     chunk_tokens_nosot |-> chunk_tokens_nosot,
     last_token_fallback |-> last_token_fallback,
     has_started |-> has_started,
     saw_consecutive_timestamps |-> saw_consecutive_timestamps,
     index_begin_30sec_chunck |-> index_begin_30sec_chunck,
     handoff |-> handoff,
     filt |-> filt,
     accepted |-> accepted,
     err |-> "none"]

Raise(a, e) == [a EXCEPT !.err = e]

\* is_sot(curr_tokens); <<>> stands for curr_tokens = None.
is_sot(curr) == curr = <<>> \/ Len(curr) > 1 \/ curr[1] = SOT

\* has_reached_decoding_limit()
has_reached_decoding_limit(a) ==
    LET n == Len(a.chunk_tokens_nosot) + 1
        m == n + (IF Len(a.chunk_tokens) > 0 THEN Len(a.chunk_tokens[1]) ELSE 0)
    IN  n >= max_sample_len \/ m > n_ctx

\* reset(add_segment, keep_last_token) without segment_tokens[-2].pop(0).
reset_keeping_first(a, add_segment, keep_last_token) ==
    LET st == a.segment_tokens
        n == Len(st)
    IN  IF add_segment
        THEN IF keep_last_token
             THEN [a EXCEPT !.segment_tokens = Append(st, <<Last(st[n])>>),
                            !.segment_attweights = <<Last(@)>>]
             ELSE [a EXCEPT !.segment_tokens = Append(st, <<>>),
                            !.segment_attweights = <<>>]
        ELSE IF Len(st[n]) > 0
        THEN [a EXCEPT !.segment_tokens[n] = <<>>,
                       !.segment_attweights = <<>>]
        ELSE a

\* reset(add_segment, keep_last_token) that keeps every attention row when
\* the boundary token is kept.
reset_keeping_rows(a, add_segment, keep_last_token) ==
    LET st == a.segment_tokens
        n == Len(st)
    IN  IF add_segment
        THEN IF keep_last_token
             THEN [a EXCEPT !.segment_tokens =
                                Append([st EXCEPT ![n] = Rest(@)], <<Last(st[n])>>)]
             ELSE [a EXCEPT !.segment_tokens =
                                Append([st EXCEPT ![n] = Rest(@)], <<>>),
                            !.segment_attweights = <<>>]
        ELSE IF Len(st[n]) > 0
        THEN [a EXCEPT !.segment_tokens[n] = <<>>,
                       !.segment_attweights = <<>>]
        ELSE a

\* reset(add_segment, keep_last_token)
reset(a, add_segment, keep_last_token) ==
    LET st == a.segment_tokens
        n == Len(st)
    IN  IF add_segment
        THEN IF keep_last_token
             THEN [a EXCEPT !.segment_tokens =
                                Append([st EXCEPT ![n] = Rest(@)], <<Last(st[n])>>),
                            !.segment_attweights = <<Last(@)>>]
             ELSE [a EXCEPT !.segment_tokens =
                                Append([st EXCEPT ![n] = Rest(@)], <<>>),
                            !.segment_attweights = <<>>]
        ELSE IF Len(st[n]) > 0
        THEN [a EXCEPT !.segment_tokens[n] = <<>>,
                       !.segment_attweights = <<>>]
        ELSE a

\* must_flush_segment that answers yes to every timestamp token.
must_flush_on_timestamp(a, curr) ==
    LET buf == Last(a.segment_tokens)
    IN  IF ~is_sot(curr)
        THEN [a |-> IF curr[1] >= TS_BEGIN /\ Len(buf) > 0
                       /\ Last(buf).id >= TS_BEGIN
                    THEN [a EXCEPT !.saw_consecutive_timestamps = TRUE]
                    ELSE a,
              flush |-> curr[1] >= TS_BEGIN]
        ELSE LET must_flush ==
                     \/ Len(buf) > 1 /\ ~a.saw_consecutive_timestamps
                     \/ Len(buf) > 2 /\ Last(buf).id >= TS_BEGIN
                 a1 == IF ~must_flush THEN reset(a, FALSE, TRUE) ELSE a
             IN  [a |-> [a1 EXCEPT !.saw_consecutive_timestamps = FALSE],
                  flush |-> must_flush]

\* must_flush_segment that, on a start of transcript, looks only at the
\* length of the buffer and at saw_consecutive_timestamps.
must_flush_unless_saw(a, curr) ==
    LET buf == Last(a.segment_tokens)
    IN  IF ~is_sot(curr)
        THEN LET is_timestamp == curr[1] >= TS_BEGIN
                 consecutive_timestamps ==
                     is_timestamp /\ Len(buf) > 0 /\ Last(buf).id >= TS_BEGIN
             IN  [a |-> IF consecutive_timestamps
                        THEN [a EXCEPT !.saw_consecutive_timestamps = TRUE]
                        ELSE a,
                  flush |-> \/ consecutive_timestamps
                            \/ /\ Len(a.chunk_tokens_nosot) = max_sample_len - 2
                               /\ is_timestamp]
        ELSE LET must_flush == Len(buf) > 1 /\ ~a.saw_consecutive_timestamps
                 a1 == IF ~must_flush THEN reset(a, FALSE, TRUE) ELSE a
             IN  [a |-> [a1 EXCEPT !.saw_consecutive_timestamps = FALSE],
                  flush |-> must_flush]

\* must_flush_segment(curr_tokens): the closure state and the answer.
must_flush_segment(a, curr) ==
    LET buf == Last(a.segment_tokens)
    IN  IF ~is_sot(curr)
        THEN LET is_timestamp == curr[1] >= TS_BEGIN
                 is_previous_timestamp ==
                     IF Len(buf) > 0 THEN Last(buf).id >= TS_BEGIN ELSE FALSE
                 consecutive_timestamps == is_timestamp /\ is_previous_timestamp
                 forced == Len(a.chunk_tokens_nosot) = max_sample_len - 2
                           /\ is_timestamp
             IN  [a |-> IF consecutive_timestamps
                        THEN [a EXCEPT !.saw_consecutive_timestamps = TRUE]
                        ELSE a,
                  flush |-> consecutive_timestamps \/ forced]
        ELSE LET first == Len(buf) > 1 /\ ~a.saw_consecutive_timestamps
                 \* last_chunk_token is None throughout
                 must_flush == first \/ (Len(buf) > 2 /\ Last(buf).id >= TS_BEGIN)
                 a1 == IF ~must_flush THEN reset(a, FALSE, TRUE) ELSE a
             IN  [a |-> [a1 EXCEPT !.saw_consecutive_timestamps = FALSE],
                  flush |-> must_flush]

\* get_index_begin_30sec_chunck that answers 0 instead of the recorded index.
get_index_from_zero(a, curr) ==
    IF is_sot(curr) /\ a.has_started
    THEN [a |-> [a EXCEPT !.index_begin_30sec_chunck = Len(a.segment_tokens) - 1],
          res |-> Some(0)]
    ELSE [a |-> a, res |-> None]

\* get_index_begin_30sec_chunck(curr_tokens): the closure state and the result.
get_index_begin_30sec_chunck(a, curr) ==
    IF is_sot(curr) /\ a.has_started
    THEN [a |-> [a EXCEPT !.index_begin_30sec_chunck = Len(a.segment_tokens) - 1],
          res |-> Some(a.index_begin_30sec_chunck)]
    ELSE [a |-> a, res |-> None]

\* What perform_word_alignment returns, or the exception it raised.
Aligned(ws) == [status |-> "ok", words |-> ws]

\* A failure that is answered with an empty list of words.
AlignFailedSilently(e) == Aligned(<<>>)

AlignFailed(e) == [status |-> e, words |-> <<>>]

\* The word records of perform_word_alignment's return statement (without
\* their times): the words from index lo to hi that are no special tokens.
RECURSIVE WordRecords(_, _, _)
WordRecords(sp, lo, hi) ==
    IF lo > hi THEN <<>>
    ELSE (IF sp.words[lo] # <<>> /\ Head(sp.words[lo]) = "<"
          THEN <<>>
          ELSE <<[text |-> sp.words[lo],
                  tokens |-> sp.word_tokens[lo],
                  tokens_indices |-> sp.word_tokens_indices[lo]]>>)
         \o WordRecords(sp, lo + 1, hi)

\* perform_word_alignment(tokens, attention_weights, ...): tokens are token
\* ids, nrows is attention_weights[i].shape[-2].
RECURSIVE perform_word_alignment(_, _, _)
perform_word_alignment(tokens, nrows, unfinished_decoding) ==
    IF Len(tokens) <= 1 THEN AlignFailed("AssertionError")
    ELSE
    LET start0 == tokens[1] - TS_BEGIN
        end0 == Last(tokens) - TS_BEGIN
        end1 == IF end0 < 0 THEN MaxTs ELSE end0
        refine == refine_whisper_precision_nframes
        start_token == IF refine > 0 THEN Max2(start0 - refine, 0) ELSE start0
        end_token == IF refine > 0 THEN Min2(end1 + refine, MaxTs) ELSE end1
        sp == split_tokens(tokens, use_space, remove_punct)
        num_frames == end_token - start_token
        W == Len(sp.words)
    IN  IF start0 < 0 THEN AlignFailed("RuntimeError")
        ELSE IF end1 = start0 /\ refine = 0 THEN Aligned(<<>>)
        ELSE IF end_token <= start_token THEN AlignFailed("RuntimeError")
        ELSE IF sp.status # "ok" THEN AlignFailed(sp.status)
        ELSE IF nrows # Len(tokens) THEN AlignFailed("AssertionError")
        ELSE IF nrows > num_frames
        THEN perform_word_alignment(
                 SubSeq(tokens, 1, Min2(num_frames - 1, Len(tokens)))
                     \o <<Last(tokens)>>,
                 Min2(num_frames - 1, nrows) + 1,
                 TRUE)
        ELSE IF refine = 0 /\ W < 2 THEN AlignFailed("IndexError")
        ELSE Aligned(WordRecords(sp, 2, IF unfinished_decoding THEN W ELSE W - 1))

\* torch.argmax(logprob): the token the decoder went on with under greedy
\* decoding, possibly another one otherwise.
ArgmaxOf(v) == IF temperature = 0 THEN {v.tok} ELSE {v.tok, T_WORD}

\* logprob[i] for a token i that is not the argmax of the vector.
LogprobAt(v, i, lp) == IF i = v.tok THEN lp ELSE LP_OTHER

\* logprob[i] for the argmax i of the vector.
LogprobTop(v, i, lp) == IF i = v.tok THEN lp ELSE LP_TOP

\* align_last_segment, lines 369-408: the chunk's tokens, the attention rows
\* and the logits vector of its last token, for each outcome of the argmax.
\* w is the 30 sec chunk the tokens come from.
ChunkOutcomes(a, curr) ==
    LET buf == Last(a.segment_tokens)
        tokens == Rest(buf)
        unfinished_decoding == Len(tokens) > 0 /\ Last(tokens).id < TS_BEGIN
        from_prompt == curr # <<>> /\ curr[1] = SOT_PREV
        index_sot == CHOOSE i \in 1..Len(curr) : curr[i] = SOT
        base == [a |-> a, tokens |-> tokens, rows |-> <<>>,
                 unfinished_decoding |-> unfinished_decoding,
                 last_token_reliable |-> TRUE, from_argmax |-> FALSE,
                 last_logprobs |-> None]
        WithFallback(t, reliable, argmax) ==
            LET tk == Tok(t, Last(buf).at + 1)
                n == Len(a.segment_tokens)
            IN  [base EXCEPT
                   !.a = IF Len(a.chunk_logprobs) = 0 \/ a.segment_attweights = <<>>
                         THEN Raise([a EXCEPT !.last_token_fallback = Some(t),
                                              !.segment_tokens[n] = Append(@, tk)],
                                    IF a.segment_attweights = <<>>
                                    THEN "RuntimeError" ELSE "IndexError")
                         ELSE [a EXCEPT !.last_token_fallback = Some(t),
                                        !.segment_tokens[n] = Append(@, tk)],
                   !.tokens = Append(tokens, tk),
                   !.rows = a.segment_attweights,
                   !.last_token_reliable = reliable,
                   !.from_argmax = argmax,
                   !.last_logprobs = IF Len(a.chunk_logprobs) = 0 THEN None
                                     ELSE Some(Last(a.chunk_logprobs))]
    IN  IF unfinished_decoding
        THEN IF from_prompt
             THEN IF index_sot <= 1
                  THEN {[base EXCEPT !.a = Raise(a, "AssertionError")]}
                  ELSE {WithFallback(curr[index_sot - 1], TRUE, FALSE)}
             ELSE IF Len(a.chunk_logprobs) = 0
                  THEN {[base EXCEPT !.a = Raise(a, "IndexError")]}
                  ELSE {WithFallback(t, temperature = 0, TRUE) :
                            t \in ArgmaxOf(Last(a.chunk_logprobs))}
        ELSE IF Len(a.segment_attweights) < 2
             THEN {[base EXCEPT !.a = Raise(a, "RuntimeError")]}
             ELSE IF Len(a.chunk_logprobs) < 2
                  THEN {[base EXCEPT !.a = Raise(a, "IndexError"),
                                     !.rows = Front(a.segment_attweights)]}
                  ELSE {[base EXCEPT
                           !.rows = Front(a.segment_attweights),
                           !.last_logprobs =
                               Some(a.chunk_logprobs[Len(a.chunk_logprobs) - 1])]}

\* align_last_segment, lines 410-420: the chunk's tokens after the check of
\* the predicted end, for each outcome of the constrained argmax.
EndOutcomes(c) ==
    LET tokens == c.tokens
        n == Len(tokens)
    IN  IF c.a.err # "none" THEN {c}
        ELSE IF n = 0 THEN {[c EXCEPT !.a = Raise(c.a, "IndexError")]}
        ELSE IF Last(tokens).id < TS_BEGIN THEN {c}
        ELSE IF tokens[1].id < TS_BEGIN
        THEN {[c EXCEPT !.a = Raise(c.a, "AssertionError")]}
        ELSE IF Last(tokens).id > tokens[1].id THEN {c}
        ELSE IF tokens[1].id + 1 > LastToken
        THEN {[c EXCEPT !.a = Raise(c.a, "ArgmaxOfEmpty")]}
        ELSE {[c EXCEPT !.tokens[n].id = e] :
                  e \in (tokens[1].id + 1)..LastToken}

\* align_last_segment(curr_tokens): every outcome, as the closure state and
\* the tuple the function returns.
\* align_last_segment, lines 422-446: the words r that perform_word_alignment
\* answered for the chunk c are added as a segment and the buffer is reset.
AddSegment(c, r, curr, w, chunk, handed) ==
    LET add_segment == Len(r.words) > 0
        outcome == IF r.status # "ok" THEN r.status
                   ELSE IF add_segment THEN "added" ELSE "empty"
        tws == IF add_segment
               THEN Append(c.a.timestamped_word_segments,
                           [win |-> w, words |-> r.words,
                            avg_logprob_reliable |-> None])
               ELSE c.a.timestamped_word_segments
        a1 == [c.a EXCEPT
                 !.handoff = [win |-> w, chunk |-> chunk, rows |-> c.rows,
                              unfinished |-> c.unfinished_decoding,
                              last_token_reliable |-> c.last_token_reliable,
                              at_sot |-> is_sot(curr),
                              handed |-> handed,
                              outcome |-> outcome],
                 !.timestamped_word_segments = tws]
    IN  [a |-> IF r.status # "ok" THEN Raise(a1, r.status)
               ELSE reset(a1, add_segment, ~is_sot(curr)),
         unfinished_decoding |-> c.unfinished_decoding,
         last_token_reliable |-> c.last_token_reliable,
         from_argmax |-> c.from_argmax]

\* align_last_segment, lines 422-437: the call of perform_word_alignment
AlignChunk(c) ==
    IF c.a.err # "none" THEN AlignFailed(c.a.err)
    ELSE IF Len(c.tokens) <= 1 THEN Aligned(<<>>)
    ELSE perform_word_alignment(Ids(c.tokens), Len(c.rows),
                                c.unfinished_decoding)

align_last_segment(a, curr, w) ==
    UNION {{AddSegment(e, AlignChunk(e), curr, w, c.tokens, c.a.err = "none") :
                e \in EndOutcomes(c)} :
              c \in ChunkOutcomes(a, curr)}

\* s[lo:hi] of Python, for 0 <= lo.
PySlice(s, lo, hi) ==
    IF lo >= Min2(hi, Len(s)) THEN <<>> ELSE SubSeq(s, lo + 1, Min2(hi, Len(s)))

RECURSIVE SumSeq(_)
SumSeq(s) == IF s = <<>> THEN 0 ELSE Head(s) + SumSeq(Tail(s))

\* timestamped_word_segments[-1][-1]["avg_logprob_reliable"] = flag
MarkLastWord(a, flag) ==
    LET n == Len(a.timestamped_word_segments)
    IN  IF n = 0 THEN Raise(a, "IndexError")
        ELSE [a EXCEPT !.timestamped_word_segments[n].avg_logprob_reliable =
                            Some(flag)]

\* may_flush_segment, lines 639-671: chunck_indices, logprobs, their sum and
\* the divisor n, for each outcome of the argmax.
ChunkStats(a, unfinished_decoding, last_token_reliable, from_argmax, lp) ==
    LET n0 == Len(a.chunk_logprobs)
        nosot == IF n0 = Len(a.chunk_tokens_nosot)
                 THEN Rest(a.chunk_tokens_nosot) ELSE a.chunk_tokens_nosot
        a0 == [a EXCEPT !.chunk_tokens_nosot = nosot]
        Stats(a1, last, n, top) ==
            LET chunck_indices == Append(nosot, last)
                logprobs ==
                    [k \in 1..n0 |->
                        IF k = n0 /\ top
                        THEN LogprobTop(a.chunk_logprobs[k], chunck_indices[k], lp)
                        ELSE LogprobAt(a.chunk_logprobs[k], chunck_indices[k], lp)]
            IN  IF a1.err # "none" \/ n0 # Len(chunck_indices)
                THEN [a |-> IF a1.err # "none" THEN a1
                            ELSE Raise(a1, "AssertionError"),
                      chunck_indices |-> chunck_indices, logprobs |-> <<>>,
                      sum_logprob |-> 0, n |-> n]
                ELSE [a |-> a1, chunck_indices |-> chunck_indices,
                      logprobs |-> logprobs,
                      sum_logprob |-> SumSeq(logprobs), n |-> n]
    IN  IF unfinished_decoding
        THEN IF a0.last_token_fallback = None
             THEN {Stats(Raise(a0, "AssertionError"), EOT, n0 + 1, FALSE)}
             ELSE {Stats(MarkLastWord(a0, last_token_reliable),
                         a0.last_token_fallback[1], n0 + 1, from_argmax)}
        ELSE IF has_reached_decoding_limit(a0)
        THEN IF n0 = 0
             THEN {Stats(Raise(a0, "IndexError"), EOT, n0, FALSE)}
             ELSE {Stats(MarkLastWord(a0, temperature = 0), t, n0, TRUE) :
                       t \in ArgmaxOf(Last(a0.chunk_logprobs))}
        ELSE {Stats(a0, EOT, n0, FALSE)}

\* The loop of lines 688-700 without "i_token_end -= 1".
RECURSIVE segment_logprobs_keeping_end(_, _, _, _, _, _)
segment_logprobs_keeping_end(a, s, i, i_token_end, n_segments, unfinished_decoding) ==
    IF a.err # "none" \/ i >= n_segments THEN a
    ELSE
      LET tokens == Ids(a.segment_tokens[i + 1])
          i_token_start == i_token_end + 1
          i_token_end1 == i_token_start + Len(tokens)
      IN  IF PySlice(s.chunck_indices, i_token_start, i_token_end1) # tokens
          THEN Raise(a, "AssertionError")
          ELSE segment_logprobs_keeping_end(
                 [a EXCEPT
                    !.segment_logprobs =
                        Append(@, Some(PySlice(s.logprobs, i_token_start + 1,
                                               i_token_end1))),
                    !.segment_avglogprobs =
                        Append(@, Some([sum |-> s.sum_logprob, n |-> s.n]))],
                 s, i + 1, i_token_end1 - 1, n_segments, unfinished_decoding)

\* may_flush_segment, lines 688-700: the log-probabilities of the segments
\* i..n_segments-1 (0-based) of the chunk.
RECURSIVE SegmentLogprobs(_, _, _, _, _, _)
SegmentLogprobs(a, s, i, i_token_end, n_segments, unfinished_decoding) ==
    IF a.err # "none" \/ i >= n_segments THEN a
    ELSE
      LET tokens == Ids(a.segment_tokens[i + 1])
          i_token_start == i_token_end + 1
          i_token_end1 == i_token_start + Len(tokens)
          i_token_end2 == IF ~unfinished_decoding \/ i # n_segments - 1
                          THEN i_token_end1 - 1 ELSE i_token_end1
      IN  IF PySlice(s.chunck_indices, i_token_start, i_token_end1) # tokens
          THEN Raise(a, "AssertionError")
          ELSE SegmentLogprobs(
                 [a EXCEPT
                    !.segment_logprobs =
                        Append(@, Some(PySlice(s.logprobs, i_token_start + 1,
                                               i_token_end2))),
                    !.segment_avglogprobs =
                        Append(@, Some([sum |-> s.sum_logprob, n |-> s.n]))],
                 s, i + 1, i_token_end2, n_segments, unfinished_decoding)

RECURSIVE Nones(_)
Nones(n) == IF n <= 0 THEN <<>> ELSE <<None>> \o Nones(n - 1)

\* may_flush_segment, lines 701-708: no log-probabilities for the segments.
WithoutLogprobs(a, i_start, n_segments) ==
    [a EXCEPT !.segment_logprobs = @ \o Nones(n_segments - i_start),
              !.segment_avglogprobs = @ \o Nones(n_segments - i_start)]

\* The reset of lines 710-714 without "no_speech_prob = None".
reset_counters_keeping_prob(a) ==
    IF a.err # "none" THEN a
    ELSE [a EXCEPT !.chunk_tokens = <<>>, !.chunk_tokens_nosot = <<>>,
                   !.chunk_logprobs = <<>>]

\* may_flush_segment, lines 710-714
ResetCounters(a) ==
    IF a.err # "none" THEN a
    ELSE [a EXCEPT !.chunk_tokens = <<>>, !.chunk_tokens_nosot = <<>>,
                   !.chunk_logprobs = <<>>, !.no_speech_prob = None]

\* may_flush_segment, lines 679-685: the chunk's segments are dropped.
SkipChunk(a, i_start, n_segments) ==
    [a EXCEPT
       !.index_begin_30sec_chunck = @ - (n_segments - i_start),
       !.segment_tokens = PySlice(@, 0, i_start) \o <<Last(@)>>,
       !.timestamped_word_segments = PySlice(@, 0, i_start)]

\* may_flush_segment, lines 625-714: the Segment Filter on the 30 sec chunk w
\* whose segments start at i_start.
SegmentFilter(a, i_start, f, w) ==
    LET n_segments == Len(a.segment_tokens) - 1
        Decided(a1, skip, s) ==
            [a1 EXCEPT
               !.filt = [win |-> w, should_skip |-> skip, i_start |-> i_start,
                         n_segments |-> n_segments,
                         added |-> Cardinality(
                             {k \in 1..Len(a.timestamped_word_segments) :
                                  a.timestamped_word_segments[k].win = w}),
                         no_speech_prob |-> a.no_speech_prob,
                         stats |-> s],
               !.accepted = IF skip \/ a1.err # "none" THEN @ ELSE @ \cup {w}]
        NoStats == [sum |-> 0, n |-> 0, known |-> FALSE]
    IN  IF ~(compute_word_confidence \/ no_speech_threshold # None)
        THEN {ResetCounters(Decided(WithoutLogprobs(a, i_start, n_segments),
                                    FALSE, NoStats))}
        ELSE IF no_speech_threshold # None /\ a.no_speech_prob = None
        THEN {Raise(a, "TypeError")}
        ELSE
          LET skip0 == no_speech_threshold # None
                       /\ a.no_speech_prob[1] > no_speech_threshold[1]
          IN  IF compute_word_confidence \/ (skip0 /\ logprob_threshold # None)
              THEN {LET should_skip ==
                            skip0 /\ ~(logprob_threshold # None
                                       /\ s.sum_logprob > logprob_threshold[1] * s.n)
                        st == [sum |-> s.sum_logprob, n |-> s.n, known |-> TRUE]
                    IN  IF s.a.err # "none" THEN s.a
                        ELSE IF should_skip
                        THEN ResetCounters(Decided(
                                 SkipChunk(s.a, i_start, n_segments), TRUE, st))
                        ELSE IF compute_word_confidence
                        THEN ResetCounters(Decided(
                                 SegmentLogprobs(s.a, s, i_start, -1, n_segments,
                                                 f.unfinished_decoding),
                                 FALSE, st))
                        ELSE ResetCounters(Decided(
                                 WithoutLogprobs(s.a, i_start, n_segments),
                                 FALSE, st))
                    : s \in UNION {ChunkStats(a, f.unfinished_decoding,
                                                  f.last_token_reliable,
                                                  f.from_argmax, lp) :
                                       lp \in LogProbs}}
              ELSE IF skip0
              THEN \* avg_logprob is unbound in the debug message of line 681
                   {Decided(Raise(a, "UnboundLocalError"), TRUE, NoStats)}
              ELSE {ResetCounters(Decided(
                        WithoutLogprobs(a, i_start, n_segments), FALSE, NoStats))}

\* may_flush_segment(curr_tokens): every outcome.
may_flush_segment(a, curr, w) ==
    LET m == must_flush_segment(a, curr)
        flushed == IF m.flush THEN align_last_segment(m.a, curr, w)
                   ELSE {[a |-> m.a, unfinished_decoding |-> FALSE,
                          last_token_reliable |-> TRUE, from_argmax |-> FALSE]}
        After(f) ==
            LET g == get_index_begin_30sec_chunck(f.a, curr)
            IN  IF f.a.err # "none" THEN {f.a}
                ELSE IF g.res = None THEN {g.a}
                ELSE SegmentFilter(g.a, g.res[1], f, w)
    IN  UNION {After(f) : f \in flushed}

\* hook_input_tokens, for curr_tokens whose last token stands at position at.
hook_input_tokens(a, curr, at, w) ==
    LET sot == CHOOSE i \in 1..Len(curr) : curr[i] = SOT
        Rest2(b) ==
            LET b1 == IF is_sot(curr)
                      THEN [b EXCEPT
                              !.has_started = Len(curr) > 1 \/ ~is_multilingual,
                              !.sot_index = IF no_speech_threshold # None
                                            THEN Some(sot - 1) ELSE @]
                      ELSE [b EXCEPT !.sot_index = None]
                n == Len(b1.segment_tokens)
            IN  IF b.err # "none" THEN b
                ELSE IF ~b1.has_started THEN b1
                ELSE [b1 EXCEPT
                        !.segment_tokens[n] = Append(@, Tok(Last(curr), at)),
                        !.chunk_tokens = Append(@, curr),
                        !.chunk_tokens_nosot =
                            IF is_sot(curr) THEN @ ELSE Append(@, Last(curr))]
    IN  {Rest2(b) : b \in may_flush_segment(a, curr, w)}

---------------------------------------------------------------------------
\* The values the options take.
NspChoices == IF no_speech_threshold = None THEN {1} ELSE NoSpeechProbs
Init ==
    /\ PhrasesIdle
    /\ HooksIdle
    /\ OutputIdle
    /\ BiasIdle
    /\ RepairIdle
    /\ SplitIdle
    /\ ConfIdle
    /\ AlignIdle
    /\ BetweenIdle
    /\ VideoIdle
    /\ compute_word_confidence \in BOOLEAN
    /\ no_speech_threshold \in {None, Some(1)}
    /\ logprob_threshold \in {None, Some(-1)}
    /\ temperature \in {0, 1}
    /\ refine_whisper_precision_nframes \in {0, 1}
    /\ condition_on_previous_text \in BOOLEAN
    /\ Closures0
    /\ pc = "forward"

\* The closure variables take the values of the record r.
Becomes(r) ==
    /\ segment_tokens' = r.segment_tokens
    /\ segment_attweights' = r.segment_attweights
    /\ timestamped_word_segments' = r.timestamped_word_segments
    /\ segment_logprobs' = r.segment_logprobs
    /\ segment_avglogprobs' = r.segment_avglogprobs
    /\ sot_index' = r.sot_index
    /\ no_speech_prob' = r.no_speech_prob
    /\ chunk_logprobs' = r.chunk_logprobs
    /\ chunk_tokens' = r.chunk_tokens
    /\ chunk_tokens_nosot' = r.chunk_tokens_nosot
    /\ last_token_fallback' = r.last_token_fallback
    /\ has_started' = r.has_started
    /\ saw_consecutive_timestamps' = r.saw_consecutive_timestamps
    /\ index_begin_30sec_chunck' = r.index_begin_30sec_chunck
    /\ handoff' = r.handoff
    /\ filt' = r.filt
    /\ accepted' = r.accepted
    /\ err' = r.err

\* whisper.detect_language: one forward pass fed <|startoftranscript|> alone.
DetectLanguage ==
    /\ pc = "forward"
    /\ win = 0
    /\ curr_tokens = <<>>
    /\ curr_tokens' = <<SOT>>
    /\ \E p \in NspChoices : fwd' = [NoForward EXCEPT !.nsp = p]
    /\ pc' = "embed"
    /\ UNCHANGED <<closureVars, configVars, curr_at, win, pos, sampled, sot_nsp,
                   whisper_segments, notAcc>>

\* The prompt of the chunk after one that sampled seq.
Prompt(seq) ==
    LET text == IF seq # <<>> /\ Last(seq) = EOT THEN Front(seq) ELSE seq
    IN  IF condition_on_previous_text /\ text # <<>>
        THEN <<SOT_PREV, Last(text), SOT, TRANSCRIBE>>
        ELSE <<SOT, TRANSCRIBE>>

\* The first forward pass of a 30 sec chunk.
StartChunk ==
    /\ pc = "forward"
    /\ pos + 2 <= MaxTokens
    /\ sampled = <<>> \/ ChunkEnded(sampled)
    /\ curr_tokens' = Prompt(sampled)
    /\ curr_at' = 0
    /\ \E t \in NextAllowed(<<>>), p \in NspChoices :
          /\ fwd' = [tok |-> t, nsp |-> p, at |-> pos + 1]
          /\ sampled' = <<t>>
          /\ sot_nsp' = Append(sot_nsp, p)
    /\ win' = win + 1
    /\ pos' = pos + 1
    /\ pc' = "embed"
    /\ UNCHANGED <<closureVars, configVars, whisper_segments, notAcc>>

\* A later forward pass of the chunk, fed the token sampled before.
DecodeStep ==
    /\ pc = "forward"
    /\ sampled # <<>>
    /\ ~ChunkEnded(sampled)
    /\ curr_tokens' = <<Last(sampled)>>
    /\ curr_at' = pos
    /\ \E t \in (IF pos + 1 >= MaxTokens THEN {EOT} ELSE NextAllowed(sampled)) :
          /\ fwd' = [fwd EXCEPT !.tok = t, !.at = pos + 1]
          /\ sampled' = Append(sampled, t)
    /\ pos' = pos + 1
    /\ pc' = "embed"
    /\ UNCHANGED <<closureVars, configVars, win, sot_nsp, whisper_segments, notAcc>>

\* model.transcribe returns (line 832).
EndOfAudio ==
    /\ pc = "forward"
    /\ sampled = <<>> \/ ChunkEnded(sampled)
    /\ pc' = "final"
    /\ UNCHANGED <<closureVars, configVars, envVars, notAcc>>

\* The 30 sec chunk the buffered tokens belong to when curr_tokens arrive.
ChunkOf(curr) == IF curr # <<>> /\ is_sot(curr) THEN win - 1 ELSE win

\* hook_input_tokens (lines 742-782), with may_flush_segment.
HookInputTokens ==
    /\ pc = "embed"
    /\ \E r \in hook_input_tokens(State, curr_tokens, curr_at, ChunkOf(curr_tokens)) :
          /\ Becomes(r)
          /\ pc' = IF r.err = "none" THEN "attn" ELSE "error"
    /\ UNCHANGED <<configVars, envVars, notAcc>>

\* hook_attention_weights (lines 726-734)
HookAttentionWeights ==
    /\ pc = "attn"
    /\ segment_attweights' = IF has_started THEN Append(segment_attweights, fwd.at)
                             ELSE segment_attweights
    /\ pc' = "logits"
    /\ UNCHANGED <<segment_tokens, timestamped_word_segments, segment_logprobs,
                   segment_avglogprobs, sot_index, no_speech_prob, chunk_logprobs,
                   chunk_tokens, chunk_tokens_nosot, last_token_fallback,
                   has_started, saw_consecutive_timestamps,
                   index_begin_30sec_chunck, handoff, filt, accepted, err,
                   configVars, envVars, notAcc>>

\* hook_output_logits (lines 786-807), registered at lines 829-830.
HookOutputLogits ==
    /\ pc = "logits"
    /\ IF compute_word_confidence \/ no_speech_threshold # None
       THEN /\ no_speech_prob' = IF sot_index # None THEN Some(fwd.nsp)
                                 ELSE no_speech_prob
            /\ chunk_logprobs' =
                   IF has_started
                   THEN Append(chunk_logprobs, [tok |-> fwd.tok])
                   ELSE chunk_logprobs
       ELSE UNCHANGED <<no_speech_prob, chunk_logprobs>>
    /\ pc' = "forward"
    /\ UNCHANGED <<segment_tokens, segment_attweights, timestamped_word_segments,
                   segment_logprobs, segment_avglogprobs, sot_index,
                   chunk_tokens, chunk_tokens_nosot, last_token_fallback,
                   has_started, saw_consecutive_timestamps,
                   index_begin_30sec_chunck, handoff, filt, accepted, err,
                   configVars, envVars, notAcc>>

\* lines 852-860 alone: the assertions on the lengths of the lists.
check_lists_only(a, l1) ==
    LET n == Len(a.segment_tokens)
    IN  IF n # Len(a.timestamped_word_segments)
           \/ Len(a.segment_avglogprobs) # n
           \/ Len(a.segment_logprobs) # n
        THEN Raise(a, "AssertionError")
        ELSE a

\* lines 852-871: the assertions on the lengths of the lists and on the
\* number l1 of segments of the transcription.
CheckSegments(a, l1) ==
    LET n == Len(a.segment_tokens)
        l2 == Len(a.timestamped_word_segments)
    IN  IF n # l2
           \/ Len(a.segment_avglogprobs) # n
           \/ Len(a.segment_logprobs) # n
        THEN Raise(a, "AssertionError")
        ELSE IF ~(l1 = l2 \/ l1 = 0) THEN Raise(a, "AssertionError")
        ELSE a

\* lines 839-871: the last flush, segment_tokens.pop(-1) and the assertions.
Finalize ==
    /\ pc = "final"
    /\ \E r \in may_flush_segment(State, <<>>, win), l1 \in 0..MaxWhisperSegments :
          LET popped == [r EXCEPT !.segment_tokens = Front(@)]
              checked == IF r.err # "none" THEN r ELSE CheckSegments(popped, l1)
          IN  /\ Becomes(checked)
              /\ whisper_segments' = Some(l1)
              /\ pc' = IF checked.err = "none" THEN "done" ELSE "error"
    /\ UNCHANGED <<configVars, curr_tokens, curr_at, fwd, win, pos, sampled,
                   sot_nsp, notAcc>>

Next ==
    \/ DetectLanguage
    \/ StartChunk
    \/ DecodeStep
    \/ EndOfAudio
    \/ HookInputTokens
    \/ HookAttentionWeights
    \/ HookOutputLogits
    \/ Finalize

Spec == Init /\ [][Next]_vars


---------------------------------------------------------------------------
(***************************************************************************)
(* Properties of the Token Accumulator and the Segment Filter.             *)
(***************************************************************************)

\* The chunks whose token list is final: every entry of segment_tokens but
\* the token buffer, which is popped at the end of the run.
FinalizedChunks == IF pc = "done" THEN segment_tokens ELSE Front(segment_tokens)

\* The Segment Filter has just run on the 30 sec chunk filt.win.
JustFiltered ==
    \/ pc = "attn" /\ is_sot(curr_tokens) /\ filt.win = win - 1
    \/ pc = "done" /\ filt.win = win

\* C3: when the Segment Filter rejects a 30 sec chunk, none of its segments
\* stays in the word-segment list; right after the filter both lists are cut
\* back to where the chunk began and index_begin_30sec_chunck has gone down
\* by the number of segments the chunk had added.
C3_RejectedChunkIsTruncated ==
    filt.should_skip =>
        /\ \A k \in 1..Len(timestamped_word_segments) :
               timestamped_word_segments[k].win # filt.win
        /\ JustFiltered =>
               /\ Len(timestamped_word_segments) = filt.n_segments - filt.added
               /\ Len(FinalizedChunks) = filt.n_segments - filt.added
               /\ index_begin_30sec_chunck = filt.n_segments - filt.added

\* What the code keeps of C3: the same, when the filter had computed the
\* chunk's average log-probability before it rejected the chunk.
C3_TruncatedWhenAverageKnown ==
    (filt.should_skip /\ filt.stats.known) =>
        /\ \A k \in 1..Len(timestamped_word_segments) :
               timestamped_word_segments[k].win # filt.win
        /\ JustFiltered =>
               /\ Len(timestamped_word_segments) = filt.n_segments - filt.added
               /\ Len(FinalizedChunks) = filt.n_segments - filt.added
               /\ index_begin_30sec_chunck = filt.n_segments - filt.added

\* C4: a 30 sec chunk is discarded only if its no-speech probability is
\* higher than no_speech_threshold and, when logprob_threshold is set, its
\* average log-probability is below logprob_threshold.
C4_DiscardedOnlyBelowThreshold ==
    filt.should_skip =>
        /\ no_speech_threshold # None
        /\ filt.no_speech_prob[1] > no_speech_threshold[1]
        /\ logprob_threshold # None =>
               /\ filt.stats.known
               /\ filt.stats.sum < logprob_threshold[1] * filt.stats.n

\* What the code keeps of C4: a chunk is discarded only if its average
\* log-probability is not above logprob_threshold.
C4_DiscardedOnlyNotAbove ==
    filt.should_skip =>
        /\ no_speech_threshold # None
        /\ filt.no_speech_prob[1] > no_speech_threshold[1]
        /\ logprob_threshold # None =>
               /\ filt.stats.known
               /\ filt.stats.sum <= logprob_threshold[1] * filt.stats.n

\* C5: no step removes or changes a segment (its tokens, its words) of a
\* 30 sec chunk that has passed the Segment Filter.
C5_AcceptedSegmentsArePermanent ==
    [][\A k \in 1..Len(timestamped_word_segments) :
          timestamped_word_segments[k].win \in accepted =>
              /\ k <= Len(timestamped_word_segments')
              /\ k <= Len(segment_tokens')
              /\ timestamped_word_segments'[k].win = timestamped_word_segments[k].win
              /\ timestamped_word_segments'[k].words = timestamped_word_segments[k].words
              /\ segment_tokens'[k] = segment_tokens[k]]_vars

\* A later chunk that had added a segment was discarded while a segment of
\* an accepted chunk stands.
C5_Witness ==
    /\ err = "none"
    /\ filt.should_skip
    /\ filt.added >= 1
    /\ \E k \in 1..Len(timestamped_word_segments) :
           /\ timestamped_word_segments[k].win \in accepted
           /\ timestamped_word_segments[k].win < filt.win

\* A chunk that can yield no words: one token, two timestamps with nothing
\* between them, or an end timestamp that is not after the start timestamp.
Degenerate(chunk) ==
    \/ Len(chunk) = 1
    \/ /\ Len(chunk) >= 2
       /\ chunk[1].id >= TS_BEGIN
       /\ Last(chunk).id >= TS_BEGIN
       /\ Len(chunk) = 2 \/ Last(chunk).id <= chunk[1].id

\* C6: the flush of a chunk that can yield no words gives an empty word
\* list, adds no segment and raises nothing.
C6_DegenerateChunkYieldsNoWords ==
    (handoff.outcome # "none" /\ Degenerate(handoff.chunk)) =>
        handoff.outcome = "empty"

\* C8: the token list of every finalized chunk is a run of consecutive
\* stream positions, and the runs of two chunks do not meet: they follow
\* each other in decode order.
C8_ChunksAreDisjointRuns ==
    LET c == FinalizedChunks
    IN  \A i \in 1..Len(c) :
           /\ Len(c[i]) >= 1
           /\ c[i][1].at >= 1
           /\ \A k \in 1..(Len(c[i]) - 1) : c[i][k + 1].at = c[i][k].at + 1
           /\ i > 1 => c[i][1].at > Last(c[i - 1]).at

\* A chunk closed by the forced boundary, with a reconstructed last token,
\* stands after another chunk.
C8_Witness ==
    /\ err = "none"
    /\ handoff.unfinished
    /\ ~handoff.at_sot
    /\ handoff.outcome = "added"
    /\ Len(FinalizedChunks) >= 2

\* C9: at every flush the attention rows handed to perform_word_alignment
\* are as many as the tokens handed to it, and the row of each token is the
\* row of the forward pass that predicted it.
C9_RowsMatchTokens ==
    handoff.handed =>
        /\ Len(handoff.rows) = Len(handoff.chunk)
        /\ handoff.rows = Ats(handoff.chunk)

\* A flush in a 30 sec chunk that follows a discarded one.
C9_Witness ==
    /\ handoff.handed
    /\ handoff.outcome = "added"
    /\ Len(handoff.chunk) >= 3
    /\ filt.should_skip
    /\ handoff.win > filt.win

\* hook_input_tokens is about to take a token that is no start of transcript,
\* a timestamp, while the last buffered token is a timestamp / a text token.
TimestampArrives ==
    /\ pc = "embed"
    /\ ~is_sot(curr_tokens)
    /\ curr_tokens[1] >= TS_BEGIN
    /\ Len(Last(segment_tokens)) > 0

TimestampAfterTimestamp ==
    TimestampArrives /\ Last(Last(segment_tokens)).id >= TS_BEGIN

TimestampAfterText ==
    TimestampArrives /\ Last(Last(segment_tokens)).id < TS_BEGIN

\* The chunk stands one token before the decoding limit (line 329).
BeforeDecodingLimit == Len(chunk_tokens_nosot) = max_sample_len - 2

\* The step has handed the buffered chunk to align_last_segment.
Flushed == handoff' # handoff

Arriving == IF pc = "final" THEN <<>> ELSE curr_tokens

\* The chunks that the flush about to happen takes from the buffer (lines
\* 369-408), one for each outcome of the fallback.
ChunksToFlush ==
    IF pc \in {"embed", "final"} /\ must_flush_segment(State, Arriving).flush
    THEN ChunkOutcomes(must_flush_segment(State, Arriving).a, Arriving)
    ELSE {}

\* The chunk has a start and an end timestamp, and the end is not after the
\* start.
EndNotAfterStart(c) ==
    /\ Len(c.tokens) >= 2
    /\ c.tokens[1].id >= TS_BEGIN
    /\ Last(c.tokens).id >= TS_BEGIN
    /\ Last(c.tokens).id <= c.tokens[1].id

\* The token list e that goes to the alignment is the chunk c with another
\* end, a timestamp after the start; nothing was raised.
EndRederived(c, e) ==
    /\ e.a.err = "none"
    /\ Len(e.tokens) = Len(c.tokens)
    /\ Front(e.tokens) = Front(c.tokens)
    /\ Last(e.tokens).id > e.tokens[1].id
    /\ Last(e.tokens).id <= LastToken

\* C23: when the end timestamp of a flushed chunk is not after its start
\* timestamp, the end is derived again among the timestamps after the start:
\* the token list handed to the alignment ends after its start, and nothing
\* is raised.
C23_EndIsRederivedAfterStart ==
    \A c \in ChunksToFlush :
        EndNotAfterStart(c) =>
            \A e \in EndOutcomes(c) : EndRederived(c, e)

\* C23, what the code keeps: the same when the log-probabilities of the
\* forward passes are kept and the start is not the last timestamp.
C23_EndIsRederivedWithLogprobs ==
    \A c \in ChunksToFlush :
        (EndNotAfterStart(c) /\ c.a.err = "none" /\ c.tokens[1].id < LastToken) =>
            \A e \in EndOutcomes(c) : EndRederived(c, e)

\* The token lists that the flush about to happen hands to
\* perform_word_alignment (lines 422-437): the chunks of two tokens or more
\* that passed the check of the predicted end.
ListsToAlign ==
    {Ids(e.tokens) : e \in {e \in UNION {EndOutcomes(c) : c \in ChunksToFlush} :
                               e.a.err = "none" /\ Len(e.tokens) > 1}}

\* C34: every token list handed to perform_word_alignment begins with a
\* timestamp token, also after a chunk that produced no words and after a
\* forced boundary.
C34_AlignedListsStartWithTimestamp ==
    \A l \in ListsToAlign : l[1] >= TS_BEGIN

\* What the code keeps: the list begins with a timestamp unless the flush
\* before it produced no words, which leaves the buffer without the token
\* that line 369 drops (lines 309-311).
C34_AlignedListsStartWithTimestampAfterWords ==
    handoff.outcome # "empty" => \A l \in ListsToAlign : l[1] >= TS_BEGIN

\* What the Segment Filter works on when it runs in the step to come: the
\* statistics s of the 30 sec chunk (lines 639-671), the index of its first
\* segment and the number of segments, for every outcome of the flush.
FilterCases ==
    LET m == must_flush_segment(State, Arriving)
        flushed == IF m.flush
                   THEN align_last_segment(m.a, Arriving, ChunkOf(Arriving))
                   ELSE {[a |-> m.a, unfinished_decoding |-> FALSE,
                          last_token_reliable |-> TRUE, from_argmax |-> FALSE]}
        Cases(f) ==
            LET g == get_index_begin_30sec_chunck(f.a, Arriving)
            IN  IF f.a.err # "none" \/ g.res = None THEN {}
                ELSE {[s |-> s, i_start |-> g.res[1],
                       n_segments |-> Len(g.a.segment_tokens) - 1,
                       unfinished_decoding |-> f.unfinished_decoding] :
                          s \in UNION {ChunkStats(g.a, f.unfinished_decoding,
                                                  f.last_token_reliable,
                                                  f.from_argmax, lp) :
                                           lp \in LogProbs}}
    IN  IF pc \in {"embed", "final"} /\ compute_word_confidence
        THEN UNION {Cases(f) : f \in flushed}
        ELSE {}

\* The chunk of case c is not discarded (lines 631-635, 672-677).
PassesFilter(c) ==
    /\ c.s.a.err = "none"
    /\ ~(/\ no_speech_threshold # None
         /\ no_speech_prob # None
         /\ no_speech_prob[1] > no_speech_threshold[1]
         /\ ~(logprob_threshold # None
              /\ c.s.sum_logprob > logprob_threshold[1] * c.s.n))

\* The tokens of the j-th segment of the chunk of case c, and the number of
\* tokens of the segments before it.
SegmentOf(c, j) == Ids(c.s.a.segment_tokens[c.i_start + j])
RECURSIVE TokensBefore(_, _)
TokensBefore(c, j) ==
    IF j <= 1 THEN 0 ELSE TokensBefore(c, j - 1) + Len(SegmentOf(c, j - 1))

\* The positions, in the chunk, of the tokens of its j-th segment that come
\* after the start timestamp and, unless the segment is the last one of an
\* unfinished decoding, before the last token.
InnerPositions(c, j) ==
    LET last == c.unfinished_decoding /\ j = c.n_segments - c.i_start
    IN  [p \in 1..(Len(SegmentOf(c, j)) - (IF last THEN 1 ELSE 2)) |->
            TokensBefore(c, j) + 1 + p]

\* The log-probabilities of case c replaced by their positions in the chunk.
Positions(c) == [c.s EXCEPT !.logprobs = [k \in 1..Len(@) |-> k]]

\* C26: when a 30 sec chunk passes the Segment Filter and word confidence is
\* computed, the j-th segment of the chunk is given the log-probabilities at
\* the positions of its tokens after its start timestamp and before its end
\* timestamp (through its last token when the decoding was unfinished and the
\* segment is the last), the tokens at those positions being the segment's
\* own; and chunk log-probabilities that are not as many as the chunk's
\* tokens raise an error.
C26_SegmentsTakeTheirOwnLogprobs ==
    \A c \in FilterCases :
        /\ Len(State.chunk_logprobs) # Len(c.s.chunck_indices) => c.s.a.err # "none"
        /\ PassesFilter(c) =>
              LET r == SegmentLogprobs(c.s.a, Positions(c), c.i_start, -1,
                                       c.n_segments, c.unfinished_decoding)
                  n0 == Len(c.s.a.segment_logprobs)
              IN  r.err = "none" =>
                    /\ Len(r.segment_logprobs) = n0 + c.n_segments - c.i_start
                    /\ \A j \in 1..(c.n_segments - c.i_start) :
                          /\ r.segment_logprobs[n0 + j] = Some(InnerPositions(c, j))
                          /\ SegmentOf(c, j)[1] >= TS_BEGIN
                          /\ \A p \in 1..Len(InnerPositions(c, j)) :
                                c.s.chunck_indices[InnerPositions(c, j)[p]]
                                    = SegmentOf(c, j)[1 + p]

\* Two segments of one 30 sec chunk were given log-probabilities.
C26_Witness ==
    /\ pc = "attn"
    /\ err = "none"
    /\ compute_word_confidence
    /\ ~filt.should_skip
    /\ filt.n_segments - filt.i_start = 2
    /\ Len(segment_logprobs) = 2
    /\ \A k \in 1..2 : segment_logprobs[k] # None /\ Len(segment_logprobs[k][1]) >= 1

\* The lists of a run that has made its last flush.
ListsAgree(n) ==
    /\ Len(segment_tokens') = n
    /\ Len(segment_logprobs') = n
    /\ Len(segment_avglogprobs') = n

\* C25: whenever the last flush raises nothing, the token segments (the open
\* one popped), the word segments, the lists of log-probabilities and the
\* average log-probabilities are equally many, so that the assertions of
\* lines 852-860 pass; and the run goes on only when the transcription has as
\* many segments, or none.
C25_ListsAgreeAfterLastFlush ==
    /\ [](pc = "final" =>
            \A r \in may_flush_segment(State, <<>>, win) :
                r.err = "none" =>
                    /\ Len(r.segment_tokens) - 1 = Len(r.timestamped_word_segments)
                    /\ Len(r.segment_logprobs) = Len(r.timestamped_word_segments)
                    /\ Len(r.segment_avglogprobs) = Len(r.timestamped_word_segments))
    /\ [][pc = "final" =>
            /\ pc' = "done" =>
                   /\ ListsAgree(Len(timestamped_word_segments'))
                   /\ whisper_segments' \in
                          {Some(0), Some(Len(timestamped_word_segments'))}
            /\ whisper_segments' \notin
                   {Some(0), Some(Len(timestamped_word_segments'))} =>
                   pc' = "error" /\ err' # "none"]_vars

\* A run of two 30 sec chunks, one of them discarded by the Segment Filter,
\* ended with one segment in each list and in the transcription.
C25_Witness ==
    /\ pc = "done"
    /\ win = 2
    /\ Cardinality(accepted) = 1
    /\ Len(segment_tokens) = 1
    /\ Len(timestamped_word_segments) = 1
    /\ Len(segment_logprobs) = 1
    /\ Len(segment_avglogprobs) = 1
    /\ whisper_segments = Some(1)

\* The Segment Filter decided on a 30 sec chunk in this step, with a
\* no_speech_threshold.
DecidedOnSpeech ==
    filt' # filt /\ err' = "none" /\ no_speech_threshold # None

\* C24: the no-speech probability the Segment Filter compares for 30 sec
\* chunk k is the one of the first forward pass of chunk k; the decision is
\* taken when the prompt of the chunk after it arrives, or at the last flush,
\* while only tokens of chunk k are buffered, and it leaves the stored
\* probability empty and nothing buffered but the arriving prompt.
C24_NoSpeechProbIsTheChunksOwn ==
    [][DecidedOnSpeech =>
         /\ pc = "final" \/ (pc = "embed" /\ is_sot(curr_tokens))
         /\ filt'.win = ChunkOf(Arriving)
         /\ filt'.win \in 1..Len(sot_nsp)
         /\ no_speech_prob = Some(sot_nsp[filt'.win])
         /\ filt'.no_speech_prob = Some(sot_nsp[filt'.win])
         /\ \A i \in 2..Len(chunk_tokens) : ~is_sot(chunk_tokens[i])
         /\ no_speech_prob' = None
         /\ chunk_logprobs' = <<>>
         /\ chunk_tokens' = IF pc = "final" THEN <<>> ELSE <<curr_tokens>>]_vars

\* The first chunk was decided on with its own probability, which differs
\* from the one of the second chunk, whose first pass has already run.
C24_Witness ==
    /\ pc = "attn"
    /\ err = "none"
    /\ no_speech_threshold # None
    /\ filt.win = 1
    /\ Len(sot_nsp) = 2
    /\ sot_nsp[1] # sot_nsp[2]
    /\ fwd.nsp = sot_nsp[2]
    /\ filt.no_speech_prob = Some(sot_nsp[1])
    /\ no_speech_prob = None
    /\ chunk_tokens = <<curr_tokens>>

MarkerArrives == pc = "embed" /\ is_sot(curr_tokens)

\* The residual: the tokens buffered when the marker arrives.
Residual == Last(segment_tokens)

ResidualIsUnflushed == Len(Residual) > 1 /\ ~saw_consecutive_timestamps

ResidualEndsWithTimestamp ==
    Len(Residual) > 2 /\ Last(Residual).id >= TS_BEGIN

\* The step leaves of the residual nothing in the buffer, and adds no segment.
ResidualDiscarded ==
    /\ ~Flushed
    /\ \A k \in 1..Len(Last(segment_tokens')) :
           Last(segment_tokens')[k].at >= curr_at
    /\ Len(timestamped_word_segments') <= Len(timestamped_word_segments)

LimitReached ==
    /\ pc = "embed"
    /\ ~is_sot(curr_tokens)
    /\ BeforeDecodingLimit
    /\ curr_tokens[1] >= TS_BEGIN

\* The step flushed the residual with a last token put after it: the token t,
\* kept as last_token_fallback, trusted or not.
FallbackAppended(t, reliable) ==
    /\ Flushed
    /\ handoff'.unfinished
    /\ handoff'.chunk = Append(Rest(Residual), Tok(t, Last(Residual).at + 1))
    /\ last_token_fallback' = Some(t)
    /\ handoff'.last_token_reliable = reliable

\* The argmax of the log-probabilities of the last forward pass.
LastArgmax ==
    IF Len(chunk_logprobs) = 0 THEN {} ELSE ArgmaxOf(Last(chunk_logprobs))

\* C20: when the number of tokens of the chunk reaches the decoding limit a
\* boundary is forced; if the flushed chunk does not end with a timestamp,
\* the argmax of the last step's log-probabilities is appended to it as its
\* last token, which is unreliable unless the temperature is zero.
C20_LimitForcesBoundary ==
    [][LimitReached =>
           /\ Flushed
           /\ Last(Residual).id < TS_BEGIN =>
                  \E t \in LastArgmax : FallbackAppended(t, temperature = 0)]_vars

\* C20, what the code keeps: the same when the log-probabilities of the
\* forward passes are kept (compute_word_confidence or no_speech_threshold
\* is set); with zero temperature the token appended is the timestamp that
\* arrives.
C20_LimitForcesBoundaryWithLogprobs ==
    [][(LimitReached /\ (compute_word_confidence \/ no_speech_threshold # None)) =>
           /\ Flushed
           /\ Last(Residual).id < TS_BEGIN =>
                  /\ \E t \in LastArgmax : FallbackAppended(t, temperature = 0)
                  /\ temperature = 0 => last_token_fallback' = Some(curr_tokens[1])]_vars

---------------------------------------------------------------------------
(***************************************************************************)
(* Confidence Scorer: the compilation of one segment, lines 914-955.       *)
(*                                                                         *)
(* A log-probability is an integer count of -ln 2, so 0 is a certain token *)
(* and -1 a token of probability one half.  A confidence is kept in        *)
(* thousandths, as round(x, 3) leaves it; the mean of an empty tensor is   *)
(* NaN, which no arithmetic comparison holds of.                           *)
(***************************************************************************)
WordLogProbs == {-1, 0}

\* round(1000 * 2 ** (-j / 60)) for j = 0..60
ExpTable ==
    <<1000,  989,  977,  966,  955,  944,  933,  922,  912,  901,
       891,  881,  871,  861,  851,  841,  831,  822,  812,  803,
       794,  785,  776,  767,  758,  749,  741,  732,  724,  715,
       707,  699,  691,  683,  675,  667,  660,  652,  645,  637,
       630,  623,  616,  609,  602,  595,  588,  581,  574,  568,
       561,  555,  548,  542,  536,  530,  524,  518,  512,  506,
       500>>

NaN == [nan |-> TRUE, milli |-> 0]

\* round(t.mean().exp().item(), 3) of a tensor t of log-probabilities
Confidence(t) ==
    IF t = <<>> THEN NaN
    ELSE [nan |-> FALSE,
          milli |-> ExpTable[((60 * (0 - SumSeq(t))) \div Len(t)) + 1]]

\* 0 <= c <= 1 of a float c
InUnitInterval(c) == ~c.nan /\ 0 <= c.milli /\ c.milli <= 1000

\* word_tokens of a word, as perform_word_alignment returns them: decoded
\* tokens; the marker of a disfluency owns none (lines 1250-1252).
WordShapes ==
    LET w == decode_with_timestamps(<<T_WORD>>)
        c == decode_with_timestamps(<<T_CONT>>)
        p == decode_with_timestamps(<<T_PUNCT>>)
    IN  {<<w>>, <<w, c>>, <<w, p>>, <<p>>}

DISFLUENCY_MARK == <<>>

RECURSIVE CountTokens(_)
CountTokens(ws) ==
    IF ws = <<>> THEN 0 ELSE Len(Head(ws).tokens) + CountTokens(Rest(ws))

\* The word lists of a segment.  A marker is inserted before a word, never
\* after the last one (lines 1241-1248), and only with detect_disfluencies.
WordLists(disfluencies) ==
    LET shapes == IF disfluencies THEN WordShapes \cup {DISFLUENCY_MARK}
                  ELSE WordShapes
    IN  {ws \in UNION {[1..n -> shapes] : n \in 1..MaxWords} :
            Last(ws) # DISFLUENCY_MARK}

Word(toks) == [tokens |-> toks, confidence |-> None]

InitConf ==
    /\ PhrasesIdle
    /\ HooksIdle
    /\ OutputIdle
    /\ BiasIdle
    /\ RepairIdle
    /\ SplitIdle
    /\ AccIdle
    /\ AlignIdle
    /\ BetweenIdle
    /\ VideoIdle
    /\ detect_disfluencies \in BOOLEAN
    /\ include_punctuation_in_confidence \in BOOLEAN
    /\ \E ws \in WordLists(detect_disfluencies) :
           timestamped_words = [k \in 1..Len(ws) |-> Word(ws[k])]
    \* segment_logprobs holds the samples between the chunk's timestamps
    \* (lines 695-699): one per token of the words, and the samples of
    \* the words a truncated alignment has dropped (lines 949-952), or one
    \* sample short, the case the assertion of lines 933-935 is there for.
    /\ \E extra \in -1..1 :
           seg_logprobs \in [1..(CountTokens(timestamped_words) + extra)
                               -> WordLogProbs]
    /\ segment_confidence = None
    /\ logprobs_nopunc = <<>>
    /\ i_end = 0
    /\ i_word = 0
    /\ cpc = "segment"

\* lines 923-927
SegmentConfidence ==
    /\ cpc = "segment"
    /\ segment_confidence' =
           IF include_punctuation_in_confidence
           THEN Some(Confidence(seg_logprobs)) ELSE segment_confidence
    /\ logprobs_nopunc' = <<>>
    /\ i_end' = 0
    /\ cpc' = "words"
    /\ UNCHANGED <<detect_disfluencies, include_punctuation_in_confidence,
                   timestamped_words, seg_logprobs, i_word, notConf>>

\* The loop of lines 939-941 without "len(tokens) > 1".
RECURSIVE strip_every_punctuation(_)
strip_every_punctuation(tokens) ==
    IF tokens # <<>> /\ InPunctuation(<<Last(Last(tokens))>>)
    THEN strip_every_punctuation(Front(tokens))
    ELSE tokens

\* lines 939-941: trailing punctuation is left out, the last token is kept.
RECURSIVE StripPunctuation(_)
StripPunctuation(tokens) ==
    IF Len(tokens) > 1 /\ InPunctuation(<<Last(Last(tokens))>>)
    THEN StripPunctuation(Front(tokens))
    ELSE tokens

\* lines 928-947: one turn of the loop over the words
WordConfidence ==
    /\ cpc = "words"
    /\ i_word < Len(timestamped_words)
    /\ LET tokens == timestamped_words[i_word + 1].tokens
           i_start == i_end
           i_end1 == i_end + Len(tokens)
           word_logprobs ==
               IF include_punctuation_in_confidence
               THEN PySlice(seg_logprobs, i_start, i_end1)
               ELSE PySlice(seg_logprobs, i_start,
                            i_start + Len(StripPunctuation(tokens)))
       IN  IF i_end1 > Len(seg_logprobs)
           THEN /\ cpc' = "error"
                /\ i_end' = i_end1
                /\ UNCHANGED <<timestamped_words, logprobs_nopunc, i_word>>
           ELSE /\ i_end' = i_end1
                /\ logprobs_nopunc' =
                       IF include_punctuation_in_confidence
                       THEN logprobs_nopunc
                       ELSE Append(logprobs_nopunc, word_logprobs)
                /\ timestamped_words' =
                       [timestamped_words EXCEPT ![i_word + 1].confidence =
                            Some(Confidence(word_logprobs))]
                /\ i_word' = i_word + 1
                /\ cpc' = cpc
    /\ UNCHANGED <<detect_disfluencies, include_punctuation_in_confidence,
                   seg_logprobs, segment_confidence, notConf>>

RECURSIVE Cat(_)
Cat(ts) == IF ts = <<>> THEN <<>> ELSE Head(ts) \o Cat(Rest(ts))

\* lines 949-955
SegmentCompiled ==
    /\ cpc = "words"
    /\ i_word = Len(timestamped_words)
    /\ segment_confidence' =
           IF include_punctuation_in_confidence THEN segment_confidence
           ELSE Some(Confidence(Cat(logprobs_nopunc)))
    /\ cpc' = "done"
    /\ UNCHANGED <<detect_disfluencies, include_punctuation_in_confidence,
                   timestamped_words, seg_logprobs, logprobs_nopunc, i_end,
                   i_word, notConf>>

NextConf == SegmentConfidence \/ WordConfidence \/ SegmentCompiled

SpecConf == InitConf /\ [][NextConf]_vars

---------------------------------------------------------------------------
\* C7: every confidence of the output, of the segment and of each of its
\* words, lies in [0, 1]; the markers of disfluencies, which own no token,
\* and the words made of punctuation alone are among these words.
C7_ConfidencesInUnitInterval ==
    /\ segment_confidence # None => InUnitInterval(segment_confidence[1])
    /\ \A k \in 1..Len(timestamped_words) :
           timestamped_words[k].confidence # None =>
               InUnitInterval(timestamped_words[k].confidence[1])

\* C7, what the code keeps: the confidence of the segment and of every word
\* that owns a token lies in [0, 1].
C7_TokenOwnersInUnitInterval ==
    /\ segment_confidence # None => InUnitInterval(segment_confidence[1])
    /\ \A k \in 1..Len(timestamped_words) :
           (/\ timestamped_words[k].confidence # None
            /\ timestamped_words[k].tokens # <<>>) =>
               InUnitInterval(timestamped_words[k].confidence[1])

\* The number of tokens of the words before the k-th.
TokensOfWordsBefore(k) == CountTokens(SubSeq(timestamped_words, 1, k - 1))

\* The log-probabilities at the positions of the first n tokens of word k.
OwnLogprobs(k, n) ==
    [p \in 1..n |-> seg_logprobs[TokensOfWordsBefore(k) + p]]

\* The tokens of a word without the punctuation tokens that end it.
RECURSIVE WithoutTrailingPunctuation(_)
WithoutTrailingPunctuation(tokens) ==
    IF tokens # <<>> /\ InPunctuation(Last(tokens))
    THEN WithoutTrailingPunctuation(Front(tokens))
    ELSE tokens

\* The tokens of a word without the punctuation tokens that follow another
\* token and end the word.
RECURSIVE WithoutGluedPunctuation(_)
WithoutGluedPunctuation(tokens) ==
    IF Len(tokens) > 1 /\ InPunctuation(Last(tokens))
    THEN WithoutGluedPunctuation(Front(tokens))
    ELSE tokens

\* The scorer stops when the words own more tokens than the segment has
\* log-probabilities, and only then.
AbortsWhenShort ==
    /\ cpc = "error" => i_end > Len(seg_logprobs)
    /\ cpc = "done" => CountTokens(timestamped_words) <= Len(seg_logprobs)

\* C27: the confidence of every word scored so far is the one of the
\* log-probabilities at the positions of its own tokens, counted from the
\* number of tokens of the words before it, without the punctuation tokens
\* that end the word unless include_punctuation_in_confidence is set; and the
\* scorer aborts when the words own more tokens than there are
\* log-probabilities.
C27_WordConfidenceFromOwnTokens ==
    /\ AbortsWhenShort
    /\ \A k \in 1..i_word :
           timestamped_words[k].confidence =
               Some(Confidence(OwnLogprobs(k,
                   IF include_punctuation_in_confidence
                   THEN Len(timestamped_words[k].tokens)
                   ELSE Len(WithoutTrailingPunctuation(timestamped_words[k].tokens)))))

\* C27, what the code keeps: the punctuation tokens left out are those that
\* end the word after another token; a word made of punctuation alone is
\* scored on its first token.
C27_WordConfidenceFromOwnTokensButFirst ==
    /\ AbortsWhenShort
    /\ \A k \in 1..i_word :
           timestamped_words[k].confidence =
               Some(Confidence(OwnLogprobs(k,
                   IF include_punctuation_in_confidence
                   THEN Len(timestamped_words[k].tokens)
                   ELSE Len(WithoutGluedPunctuation(timestamped_words[k].tokens)))))

\* The second word of a segment, which ends with punctuation, was scored on
\* the log-probability of its first token, which differs from the ones
\* before and after it.
C27_Witness ==
    /\ cpc = "done"
    /\ ~include_punctuation_in_confidence
    /\ Len(timestamped_words) = 2
    /\ Len(timestamped_words[1].tokens) = 1
    /\ Len(timestamped_words[2].tokens) = 2
    /\ InPunctuation(timestamped_words[2].tokens[2])
    /\ seg_logprobs = <<0, -1, 0>>
    /\ timestamped_words[2].confidence = Some(Confidence(<<-1>>))

---------------------------------------------------------------------------
(***************************************************************************)
(* perform_word_alignment, one call with its times.                        *)
(*                                                                         *)
(* A frame of the alignment is one timestamp step (AUDIO_TIME_PER_TOKEN);  *)
(* the times of the words are counted in hundredths of a second.  The      *)
(* attention weights are not modelled: the path of the DTW is any          *)
(* monotonic path from the first token and frame to the last ones, and     *)
(* the peaks find_peaks reports are any the length of the token allows.    *)
(* The rows of the attention weights are those of the tokens.              *)
(***************************************************************************)
AUDIO_TIME_PER_TOKEN == 2

AlignText == {T_WORD, T_PUNCT}

AlignBodies == UNION {[1..n -> AlignText] : n \in 0..MaxAlignText}

\* The token lists align_last_segment hands over: a start timestamp, text,
\* and an end timestamp unless the decoding is unfinished; the start
\* timestamp is missing after a flush that cleared the buffer.
AlignLists ==
    {l \in {<<ts>> \o b : ts \in Timestamps, b \in AlignBodies}
           \cup {<<ts>> \o b \o <<te>> :
                    ts \in Timestamps, b \in AlignBodies, te \in Timestamps}
           \cup {b \o <<te>> : b \in AlignBodies, te \in Timestamps} :
        Len(l) > 1}

InitAlign ==
    /\ PhrasesIdle
    /\ HooksIdle
    /\ OutputIdle
    /\ BiasIdle
    /\ RepairIdle
    /\ SplitIdle
    /\ AccIdle
    /\ ConfIdle
    /\ BetweenIdle
    /\ VideoIdle
    /\ al_call \in AlignLists
    /\ al_tokens = al_call
    /\ al_unfinished = (Last(al_call) < TS_BEGIN)
    /\ al_refine \in 0..1
    /\ al_detect \in BOOLEAN
    /\ al_start = 0
    /\ al_end = 0
    /\ al_jumps = <<>>
    /\ al_jumps_start = <<>>
    /\ al_disfluences = <<>>
    /\ al_i_token = 0
    /\ al_retries = 0
    /\ al_out = NoAlignment
    /\ apc = "call"

AlignReturns(r) ==
    /\ al_out' = r
    /\ apc' = "done"

\* lines 1049-1077: the window of the chunk
AlignWindow ==
    /\ apc = "call"
    /\ IF Len(al_tokens) <= 1
       THEN AlignReturns(AlignFailed("AssertionError"))
            /\ UNCHANGED <<al_start, al_end>>
       ELSE
         LET start0 == al_tokens[1] - TS_BEGIN
             end0 == Last(al_tokens) - TS_BEGIN
             end1 == IF end0 < 0 THEN MaxTs ELSE end0
             start2 == IF al_refine > 0 THEN Max2(start0 - al_refine, 0)
                       ELSE start0
             end2 == IF al_refine > 0 THEN Min2(end1 + al_refine, MaxTs)
                     ELSE end1
         IN  IF start0 < 0
             THEN AlignReturns(AlignFailed("RuntimeError"))
                  /\ UNCHANGED <<al_start, al_end>>
             ELSE IF end1 = start0 /\ al_refine = 0
             THEN AlignReturns(Aligned(<<>>))
                  /\ UNCHANGED <<al_start, al_end>>
             ELSE IF end2 <= start2
             THEN AlignReturns(AlignFailed("RuntimeError"))
                  /\ al_start' = start2 /\ al_end' = end2
             ELSE /\ al_start' = start2
                  /\ al_end' = end2
                  /\ apc' = "split"
                  /\ UNCHANGED al_out
    /\ UNCHANGED <<al_call, al_tokens, al_unfinished, al_refine, al_detect,
                   al_jumps, al_jumps_start, al_disfluences, al_i_token,
                   al_retries, notAlign>>

\* num_frames, line 1100
num_frames == al_end - al_start

\* lines 1101-1124: more tokens than frames, the call is made again on the
\* first num_frames - 1 tokens and the last one.
AlignRetry ==
    /\ apc = "split"
    /\ split_tokens(al_tokens, use_space, remove_punct).status = "ok"
    /\ Len(al_tokens) > num_frames
    /\ al_tokens' = PySlice(al_tokens, 0, num_frames - 1) \o <<Last(al_tokens)>>
    /\ al_unfinished' = TRUE
    /\ al_retries' = al_retries + 1
    /\ apc' = "call"
    /\ UNCHANGED <<al_call, al_refine, al_detect, al_start, al_end, al_jumps,
                   al_jumps_start, al_disfluences, al_i_token, al_out, notAlign>>

\* lines 1079-1100: the words of the chunk, as many frames as tokens at least
AlignSplit ==
    /\ apc = "split"
    /\ LET status == split_tokens(al_tokens, use_space, remove_punct).status
       IN  IF status # "ok"
           THEN AlignReturns(AlignFailed(status))
           ELSE /\ Len(al_tokens) <= num_frames
                /\ apc' = "dtw"
                /\ UNCHANGED al_out
    /\ UNCHANGED <<al_call, al_tokens, al_unfinished, al_refine, al_detect,
                   al_start, al_end, al_jumps, al_jumps_start, al_disfluences,
                   al_i_token, al_retries, notAlign>>

\* alignment.index2s at the first point of each token (lines 1188-1191): the
\* path starts at frame 0 and never goes back.
Paths(n, f) ==
    {j \in [1..n -> 0..(f - 1)] :
        /\ j[1] = 0
        /\ \A i \in 1..(n - 1) : j[i] <= j[i + 1]}

\* lines 1186-1194: the DTW, and jumps padded with the last frame
AlignDTW ==
    /\ apc = "dtw"
    /\ \E j \in Paths(Len(al_tokens), num_frames) :
           al_jumps' = j \o <<num_frames - 1>>
    /\ al_jumps_start' = al_jumps'
    /\ al_disfluences' = [i \in 1..(Len(al_tokens) + 1) |-> None]
    /\ al_i_token' = 0
    /\ apc' = IF al_detect THEN "peaks" ELSE "words"
    /\ UNCHANGED <<al_call, al_tokens, al_unfinished, al_refine, al_detect,
                   al_start, al_end, al_retries, al_out, notAlign>>

\* left[-1] + begin for a token with several peaks between begin and end
\* (lines 1202-1214).  Row 0 of the weights is flat from frame
\* 2 * refine_whisper_precision_nframes on (lines 1160-1161).
NewBegins(i_token, begin, end) ==
    IF end - begin < 2 \/ (i_token = 0 /\ al_refine = 0) THEN {}
    ELSE begin..(end - 1)

\* lines 1216-1227: the start of token i_token is revised to new_begin
Revised(i_token, begin, end, new_begin) ==
    /\ al_jumps_start' = [al_jumps_start EXCEPT ![i_token + 1] = new_begin]
    /\ al_disfluences' =
           IF new_begin = begin THEN al_disfluences
           ELSE IF ~InPunctuation(decode_with_timestamps(<<al_tokens[i_token + 1]>>))
           THEN [al_disfluences EXCEPT ![i_token + 1] = Some([begin |-> begin,
                                                              end |-> new_begin])]
           ELSE [al_disfluences EXCEPT ![i_token + 2] = Some([begin |-> begin,
                                                              end |-> end])]

\* lines 1201-1227: one turn of the loop over the tokens
AlignDisfluencies ==
    /\ apc = "peaks"
    /\ LET begin == al_jumps[al_i_token + 1]
           end == al_jumps[al_i_token + 2]
       IN  \/ UNCHANGED <<al_jumps_start, al_disfluences>>
           \/ \E new_begin \in NewBegins(al_i_token, begin, end) :
                  Revised(al_i_token, begin, end, new_begin)
    /\ al_i_token' = al_i_token + 1
    /\ apc' = IF al_i_token + 1 = Len(al_tokens) THEN "words" ELSE apc
    /\ UNCHANGED <<al_call, al_tokens, al_unfinished, al_refine, al_detect,
                   al_start, al_end, al_jumps, al_retries, al_out, notAlign>>

\* word_boundaries (lines 1230-1231): the tokens of the first k words
RECURSIVE word_boundaries(_, _)
word_boundaries(word_tokens, k) ==
    IF k = 0 THEN 0
    ELSE Len(word_tokens[k]) + word_boundaries(word_tokens, k - 1)

\* num_punctuations_per_tokens, lines 1089-1091
num_punctuations(w) == IF Len(w) = 1 \/ ~InPunctuation(Last(w)) THEN 0 ELSE 1

\* The default of line 1023; no call of the repository passes another value.
include_punctuation_in_timing == FALSE

\* lines 1089-1093: with include_punctuation_in_timing every entry but the
\* last two is set to 0.
num_punctuations_per_tokens(word_tokens) ==
    [k \in 1..Len(word_tokens) |->
        IF include_punctuation_in_timing /\ k <= Len(word_tokens) - 2 THEN 0
        ELSE num_punctuations(word_tokens[k])]

\* lines 1232-1233: word k of the chunk with its begin and end frames
TimedWord(sp, k) ==
    [text |-> sp.words[k],
     begin |-> al_jumps_start[word_boundaries(sp.word_tokens, k - 1) + 1],
     end |-> al_jumps[word_boundaries(sp.word_tokens, k)
                         - num_punctuations_per_tokens(sp.word_tokens)[k] + 1],
     tokens |-> sp.word_tokens[k],
     tokens_indices |-> sp.word_tokens_indices[k]]

\* lines 1250-1254: the marker of a disfluency d
MarkerWord(d) ==
    [text |-> <<"[", "*", "]">>, begin |-> d.begin, end |-> d.end,
     tokens |-> <<>>, tokens_indices |-> <<>>]

\* lines 1238-1255: a marker goes before word k when the first token of the
\* word has a disfluency, for every word but the first and the last.
MarkersBefore(sp, k) ==
    LET d == al_disfluences[word_boundaries(sp.word_tokens, k - 1) + 1]
    IN  IF al_detect /\ k > 1 /\ k < Len(sp.words) /\ d # None
        THEN <<MarkerWord(d[1])>> ELSE <<>>

RECURSIVE TimedWords(_, _)
TimedWords(sp, k) ==
    IF k > Len(sp.words) THEN <<>>
    ELSE MarkersBefore(sp, k) \o <<TimedWord(sp, k)>> \o TimedWords(sp, k + 1)

\* lines 1257-1261: the times of the start and end tokens are ignored
IgnoreStartEnd(l) ==
    IF al_refine # 0 THEN l
    ELSE [k \in 1..Len(l) |->
            [l[k] EXCEPT !.begin = IF k = 2 THEN l[1].begin ELSE @,
                         !.end = IF k = Len(l) - 1 THEN l[Len(l)].end ELSE @]]

\* lines 1262-1273: the start token, and the end token of a finished chunk
WithoutStartEnd(l) ==
    IF al_unfinished THEN Rest(l) ELSE PySlice(l, 1, Len(l) - 1)

\* lines 1275-1287: the records returned, times in hundredths of a second.
\* begin and end are whole frames, so round(x, 2) finds a multiple of 0.02.
RECURSIVE ReturnedWords(_)
ReturnedWords(l) ==
    IF l = <<>> THEN <<>>
    ELSE (IF Head(l).text # <<>> /\ Head(Head(l).text) = "<" THEN <<>>
          ELSE <<[text |-> Head(l).text,
                  start |-> (Head(l).begin + al_start) * AUDIO_TIME_PER_TOKEN,
                  end |-> (Head(l).end + al_start) * AUDIO_TIME_PER_TOKEN,
                  tokens |-> Head(l).tokens,
                  tokens_indices |-> Head(l).tokens_indices]>>)
         \o ReturnedWords(Rest(l))

AlignedWords(l) ==
    IF al_refine = 0 /\ Len(l) < 2 THEN AlignFailed("IndexError")
    ELSE Aligned(ReturnedWords(WithoutStartEnd(IgnoreStartEnd(l))))

\* lines 1229-1287: the words and their times
AlignWords ==
    /\ apc = "words"
    /\ AlignReturns(AlignedWords(
           TimedWords(split_tokens(al_tokens, use_space, remove_punct), 1)))
    /\ UNCHANGED <<al_call, al_tokens, al_unfinished, al_refine, al_detect,
                   al_start, al_end, al_jumps, al_jumps_start, al_disfluences,
                   al_i_token, al_retries, notAlign>>

NextAlign ==
    \/ AlignWindow
    \/ AlignRetry
    \/ AlignSplit
    \/ AlignDTW
    \/ AlignDisfluencies
    \/ AlignWords

SpecAlign == InitAlign /\ [][NextAlign]_vars

---------------------------------------------------------------------------
\* time(t) of a timestamp token t, in hundredths of a second
TimeOf(t) == (t - TS_BEGIN) * AUDIO_TIME_PER_TOKEN

\* A call on a chunk bounded by two timestamps returned words, zero margin.
BoundedChunkAligned ==
    /\ apc = "done"
    /\ al_out.status = "ok"
    /\ al_out.words # <<>>
    /\ al_refine = 0
    /\ al_call[1] >= TS_BEGIN
    /\ Last(al_call) >= TS_BEGIN

\* C11: with zero refinement margin the words of a chunk bounded by the
\* timestamps s and e span the whole window: the first word starts at
\* time(s) and the last word ends at time(e), whatever the path of the DTW.
C11_WordsSpanTheWindow ==
    BoundedChunkAligned =>
        /\ al_out.words[1].start = TimeOf(al_call[1])
        /\ Last(al_out.words).end = TimeOf(Last(al_call))

\* C11, what the code keeps: the first word starts at time(s), the last
\* word ends one frame before time(e), at the last frame of the path.
C11_WordsSpanTheFrames ==
    BoundedChunkAligned =>
        /\ al_out.words[1].start = TimeOf(al_call[1])
        /\ Last(al_out.words).end = TimeOf(Last(al_call)) - AUDIO_TIME_PER_TOKEN

\* The retry of a call that had more tokens than frames keeps the first
\* num_frames - 1 tokens and the last one, is marked unfinished, has no more
\* tokens than frames, and returns words.
RetryRepairsInPlace ==
    /\ al_unfinished
    /\ Last(al_tokens) = Last(al_call)
    /\ Front(al_tokens) = SubSeq(al_call, 1, Len(al_tokens) - 1)
    /\ Len(al_tokens) <= num_frames
    /\ apc = "done" => al_out.status = "ok"

\* C13: a chunk with more tokens than frames is aligned again without its
\* last interior tokens, the final boundary token kept; the retry has no
\* more tokens than frames, is marked unfinished decoding, and no error
\* reaches the caller, for every number of frames >= 1.
C13_TooMuchTextIsRepaired ==
    (al_retries >= 1 /\ num_frames >= 1) => RetryRepairsInPlace

\* C13, what the code keeps: the same for every number of frames >= 2.
C13_TooMuchTextIsRepairedFromTwoFrames ==
    (al_retries >= 1 /\ num_frames >= 2) => RetryRepairsInPlace

\* The window of the call, in frames, after the margin: from
\* max(s - margin, 0) to min(e + margin, N_FRAMES // 2), for the timestamps
\* s and e of the chunk (e the end of the audio if the chunk has none).
WindowStart == Max2(al_call[1] - TS_BEGIN - al_refine, 0)
WindowEnd ==
    IF Last(al_call) < TS_BEGIN THEN MaxTs
    ELSE Min2(Last(al_call) - TS_BEGIN + al_refine, MaxTs)

\* A call on a chunk with its start timestamp whose window is not positive
\* has ended.
NonPositiveWindowDone ==
    /\ apc = "done"
    /\ al_call[1] >= TS_BEGIN
    /\ WindowEnd <= WindowStart

\* C14: if the window of the chunk is not positive after the margin (window
\* end <= window start), the alignment raises instead of returning words.
C14_NonPositiveWindowIsFatal ==
    NonPositiveWindowDone => al_out.status = "RuntimeError"

\* C14 amended: the alignment raises RuntimeError, except for an empty
\* window (end = start) under a zero margin, which is answered with an
\* empty list of words.
C14_NonPositiveWindowIsFatalUnlessEmpty ==
    NonPositiveWindowDone =>
        IF al_refine = 0 /\ WindowEnd = WindowStart
        THEN al_out = Aligned(<<>>)
        ELSE al_out.status = "RuntimeError"

\* A call with a margin whose end timestamp lies before its start raised.
C14_Witness ==
    /\ NonPositiveWindowDone
    /\ al_refine > 0
    /\ Len(al_call) = 3
    /\ al_out.status = "RuntimeError"

\* The words of the running call, as split_tokens gives them.
AlignSplitWords == split_tokens(al_tokens, use_space, remove_punct)

\* The index of the first token of word k.
FirstToken(k) == word_boundaries(AlignSplitWords.word_tokens, k - 1)

\* The call returned words, and the start of the first token of word k, a
\* word of the result, was revised by the detection of disfluencies.
StartRevised(k) ==
    /\ apc = "done"
    /\ al_out.status = "ok"
    /\ al_detect
    /\ Len(al_jumps_start) = Len(al_tokens) + 1
    /\ k >= 2
    /\ k <= Len(AlignSplitWords.words) - (IF al_unfinished THEN 0 ELSE 1)
    /\ Head(AlignSplitWords.words[k]) # "<"
    /\ al_jumps_start[FirstToken(k) + 1] # al_jumps[FirstToken(k) + 1]

\* The start that word k had before the revision, in hundredths of a
\* second: the start of its first token, or the start of the chunk for the
\* first word under a zero margin (lines 1258-1259).
OriginalStart(k) ==
    (al_start + (IF k = 2 /\ al_refine = 0 THEN al_jumps_start[1]
                 ELSE al_jumps[FirstToken(k) + 1])) * AUDIO_TIME_PER_TOKEN

RevisedStart(k) ==
    (al_start + al_jumps_start[FirstToken(k) + 1]) * AUDIO_TIME_PER_TOKEN

\* A marker stands immediately before word k in the result, from the
\* original start of the word to its revised start, where the word begins.
MarkerCoversRevision(k) ==
    \E j \in 1..(Len(al_out.words) - 1) :
        /\ al_out.words[j].tokens = <<>>
        /\ al_out.words[j].start = OriginalStart(k)
        /\ al_out.words[j].end = RevisedStart(k)
        /\ al_out.words[j + 1].start = RevisedStart(k)
        /\ al_out.words[j + 1].tokens = AlignSplitWords.word_tokens[k]

\* C15: when the start of a token is revised, a disfluency marker is
\* inserted immediately before the affected word; it runs from the token's
\* original start to its revised start, which is the word's new start, so
\* that marker and word cover the word's original span.
C15_MarkerCoversRevisedStart ==
    \A k \in 1..(Len(al_tokens) + 1) : StartRevised(k) => MarkerCoversRevision(k)

\* C15, what the code keeps: the same for a word that is not the last of the
\* chunk's token list and does not begin with a punctuation mark.
C15_MarkerCoversRevisedStartInside ==
    \A k \in 1..(Len(al_tokens) + 1) :
        (/\ StartRevised(k)
         /\ k < Len(AlignSplitWords.words)
         /\ ~InPunctuation(AlignSplitWords.word_tokens[k][1])) =>
            MarkerCoversRevision(k)

\* The words ws stand in time order: none ends before it starts, none
\* starts before the one before it has ended.
InTimeOrder(ws) ==
    /\ \A k \in 1..Len(ws) : ws[k].start <= ws[k].end
    /\ \A k \in 1..(Len(ws) - 1) : ws[k].end <= ws[k + 1].start

\* C28: the words a call returns, markers of disfluencies included, stand in
\* time order, for every path of the DTW and every outcome of the detection
\* of peaks.
C28_WordsInTimeOrder ==
    (apc = "done" /\ al_out.status = "ok") => InTimeOrder(al_out.words)

\* C28, what the code keeps: the same for a call with a margin, or on a
\* chunk that ends with its timestamp, when no word of the chunk is a
\* punctuation mark alone.
C28_WordsInTimeOrderWhenFinished ==
    (/\ apc = "done"
     /\ al_out.status = "ok"
     /\ al_refine # 0 \/ ~al_unfinished
     /\ \A k \in 1..Len(AlignSplitWords.word_tokens) :
            ~InPunctuation(AlignSplitWords.word_tokens[k][1])) =>
        InTimeOrder(al_out.words)

\* The call returned words after the detection of disfluencies, and the
\* start of the text token at index i (from 0) was moved.
TokenMoved(i) ==
    /\ apc = "done"
    /\ al_out.status = "ok"
    /\ al_detect
    /\ Len(al_jumps_start) = Len(al_tokens) + 1
    /\ al_tokens[i + 1] < TS_BEGIN
    /\ al_jumps_start[i + 1] # al_jumps[i + 1]

\* The word, as split_tokens numbers it, that holds the token at index i.
WordOf(i) ==
    CHOOSE k \in 1..Len(AlignSplitWords.words) : FirstToken(k) <= i /\ i < FirstToken(k + 1)

\* The number of words that are not markers among the first j returned.
RECURSIVE WordsAmong(_)
WordsAmong(j) ==
    IF j = 0 THEN 0
    ELSE WordsAmong(j - 1) + (IF al_out.words[j].tokens = <<>> THEN 0 ELSE 1)

\* A marker stands in the result immediately before word k of the chunk (the
\* first word, the start timestamp, is not returned).
MarkerBefore(k) ==
    \E j \in 1..(Len(al_out.words) - 1) :
        /\ al_out.words[j].tokens = <<>>
        /\ al_out.words[j + 1].tokens = AlignSplitWords.word_tokens[k]
        /\ WordsAmong(j + 1) = k - 1

IsPunctuationToken(i) == InPunctuation(decode_with_timestamps(<<al_tokens[i + 1]>>))

\* C29: every text token whose start the detection of peaks has moved has a
\* marker in the words returned: immediately before the word that holds the
\* token, or before the word after it when the token is a punctuation mark.
C29_MovedTokenHasMarker ==
    \A i \in 1..(Len(al_tokens) - 1) :
        TokenMoved(i) =>
            IF IsPunctuationToken(i) THEN MarkerBefore(WordOf(i) + 1)
            ELSE MarkerBefore(WordOf(i))

\* C29, what the code keeps: the marker is there when the token that takes
\* it (the token itself, or the one after a punctuation mark) is the first
\* of a word that is neither the first nor the last of the chunk's words.
C29_MovedFirstTokenInsideHasMarker ==
    \A i \in 1..(Len(al_tokens) - 1) :
        TokenMoved(i) =>
            LET t == IF IsPunctuationToken(i) THEN i + 1 ELSE i
            IN  (/\ t < Len(al_tokens)
                 /\ FirstToken(WordOf(t)) = t
                 /\ WordOf(t) > 1
                 /\ WordOf(t) < Len(AlignSplitWords.words)) =>
                    MarkerBefore(WordOf(t))

\* A call with a margin returned word k of the chunk, a word of text.
WordReturned(k) ==
    /\ apc = "done"
    /\ al_out.status = "ok"
    /\ al_refine # 0
    /\ Len(al_jumps_start) = Len(al_tokens) + 1
    /\ k >= 2
    /\ k <= Len(AlignSplitWords.words) - (IF al_unfinished THEN 0 ELSE 1)
    /\ Head(AlignSplitWords.words[k]) # "<"

\* The record returned for word k of the chunk.
Returned(k) ==
    al_out.words[CHOOSE j \in 1..Len(al_out.words) :
                     al_out.words[j].tokens # <<>> /\ WordsAmong(j) = k - 1]

\* The times at which the token at index i (from 0) starts and ends, in
\* hundredths of a second.
TokenStart(i) == (al_start + al_jumps_start[i + 1]) * AUDIO_TIME_PER_TOKEN
TokenEnd(i) == (al_start + al_jumps[i + 2]) * AUDIO_TIME_PER_TOKEN

\* The index of the last token of word k.
LastTokenOf(k) == FirstToken(k + 1) - 1

\* C30: with the options at their defaults, a word returned by a call with
\* a margin starts when its first token starts and ends when its last token
\* ends, the punctuation mark glued to it included.
C30_WordSpansItsTokens ==
    \A k \in 1..(Len(al_tokens) + 1) :
        WordReturned(k) =>
            /\ Returned(k).start = TokenStart(FirstToken(k))
            /\ Returned(k).end = TokenEnd(LastTokenOf(k))

\* C30, what the code keeps: the word ends when its last token ends, or,
\* if a punctuation mark is glued to it, when that mark starts.
C30_WordSpansItsTokensButPunctuation ==
    \A k \in 1..(Len(al_tokens) + 1) :
        WordReturned(k) =>
            /\ Returned(k).start = TokenStart(FirstToken(k))
            /\ Returned(k).end =
                   IF Len(AlignSplitWords.word_tokens[k]) > 1
                      /\ InPunctuation(Last(AlignSplitWords.word_tokens[k]))
                   THEN (al_start + al_jumps[LastTokenOf(k) + 1])
                            * AUDIO_TIME_PER_TOKEN
                   ELSE TokenEnd(LastTokenOf(k))

---------------------------------------------------------------------------
(***************************************************************************)
(* between_timestamps of speech_to_text.py.  The text of a word is its     *)
(* place in the list, and the phrase returned is kept as the list of the   *)
(* texts that " ".join puts together.                                      *)
(***************************************************************************)

\* _binary_search: the loop, on the indices of Python
RECURSIVE BinarySearchLoop(_, _, _, _)
BinarySearchLoop(stamps, val, lowIdx, highIdx) ==
    IF ~(highIdx > lowIdx) THEN <<lowIdx, highIdx>>
    ELSE LET idx == (highIdx + lowIdx) \div 2
         IN  IF stamps[lowIdx + 1] = val THEN <<lowIdx, lowIdx>>
             ELSE IF stamps[idx + 1] = val THEN <<idx, idx>>
             ELSE IF stamps[idx + 1] > val
             THEN (IF highIdx = idx THEN <<lowIdx, highIdx>>
                   ELSE BinarySearchLoop(stamps, val, lowIdx, idx))
             ELSE (IF lowIdx = idx THEN <<lowIdx, highIdx>>
                   ELSE BinarySearchLoop(stamps, val, idx, highIdx))

_binary_search(stamps, val) == BinarySearchLoop(stamps, val, 0, Len(stamps) - 1)

\* The word lists: sorted by start and by end, no word ends before it starts.
BetweenTimes == 0..MaxBetweenTime

WordLists3 ==
    {l \in UNION {[1..n -> [start : BetweenTimes, end : BetweenTimes]] :
                     n \in 1..MaxBetweenWords} :
        /\ \A k \in 1..Len(l) : l[k].start <= l[k].end
        /\ \A k \in 1..(Len(l) - 1) :
               l[k].start <= l[k + 1].start /\ l[k].end <= l[k + 1].end}

InitBetween ==
    /\ PhrasesIdle
    /\ HooksIdle
    /\ OutputIdle
    /\ BiasIdle
    /\ RepairIdle
    /\ SplitIdle
    /\ AccIdle
    /\ ConfIdle
    /\ AlignIdle
    /\ VideoIdle
    /\ \E l \in WordLists3 :
           all_words = [k \in 1..Len(l) |->
                           [start |-> l[k].start, end |-> l[k].end, text |-> k]]
    /\ bt_start \in BetweenTimes
    /\ bt_end \in BetweenTimes
    /\ bt_start <= bt_end
    /\ bt_out = [status |-> "none", words |-> <<>>]
    /\ bpc = "call"

\* lines 207-219
between_timestamps(words, start, end) ==
    LET starts == [k \in 1..Len(words) |-> words[k].start]
        ends == [k \in 1..Len(words) |-> words[k].end]
        s_idx == _binary_search(starts, start)
        e_idx == _binary_search(ends, end)
        start_idx == Min2(s_idx[1], s_idx[2])
        end_idx == Max2(e_idx[1], e_idx[2])
                       + (IF end > Last(words).end THEN 1 ELSE 0)
        slice == PySlice(words, start_idx, end_idx)
    IN  IF start < 0 THEN [status |-> "AssertionError", words |-> <<>>]
        ELSE [status |-> "ok",
              words |-> [k \in 1..Len(slice) |-> slice[k].text]]

BetweenTimestamps ==
    /\ bpc = "call"
    /\ bt_out' = between_timestamps(all_words, bt_start, bt_end)
    /\ bpc' = "done"
    /\ UNCHANGED <<all_words, bt_start, bt_end, notBetween>>

NextBetween == BetweenTimestamps

SpecBetween == InitBetween /\ [][NextBetween]_vars

SetMax(S) == CHOOSE x \in S : \A y \in S : y <= x
SetMin(S) == CHOOSE x \in S : \A y \in S : x <= y

\* The closest word on the left of the start stamp: the last word that does
\* not start after it (the first word if every word starts after it).
ClosestLeft ==
    SetMax({1} \cup {k \in 1..Len(all_words) : all_words[k].start <= bt_start})

\* The closest word on the right of the end stamp: the first word that does
\* not end before it (the last word if every word ends before it).
ClosestRight ==
    SetMin({Len(all_words)}
               \cup {k \in 1..Len(all_words) : all_words[k].end >= bt_end})

\* C16: between_timestamps returns the texts of the words from the closest
\* word on the left of the start stamp through the closest word on the right
\* of the end stamp, both included.
C16_BetweenClosestWords ==
    bpc = "done" =>
        /\ bt_out.status = "ok"
        /\ bt_out.words = [k \in 1..(ClosestRight - ClosestLeft + 1) |->
                              all_words[ClosestLeft + k - 1].text]

\* C16, what the code keeps: the texts returned are those of consecutive
\* words, and the words after the closest word on the right of the end stamp
\* are never among them.
C16_BetweenConsecutiveWords ==
    bpc = "done" =>
        /\ bt_out.status = "ok"
        /\ \A k \in 1..(Len(bt_out.words) - 1) :
               bt_out.words[k + 1] = bt_out.words[k] + 1
        /\ \A k \in 1..Len(bt_out.words) : bt_out.words[k] <= ClosestRight

---------------------------------------------------------------------------
(***************************************************************************)
(* transcribe_video of speech_to_text.py.  Segment k of the recognition    *)
(* starts at time k - 1 and ends at time k; of its text the model keeps    *)
(* whether its last character is one of ".", "!", "?".                     *)
(***************************************************************************)
Langs == {"en", "ru", "de"}
Models == {"server", "local", "cloud"}
Devices == {None, Some("cpu"), Some("cuda")}

InitVideo ==
    /\ PhrasesIdle
    /\ HooksIdle
    /\ OutputIdle
    /\ BiasIdle
    /\ RepairIdle
    /\ SplitIdle
    /\ AccIdle
    /\ ConfIdle
    /\ AlignIdle
    /\ BetweenIdle
    /\ tv_lang \in Langs
    /\ tv_model \in Models
    /\ tv_device \in Devices
    /\ tv_loaded = None
    /\ tv_language = None
    /\ tv_segments \in UNION {[1..n -> BOOLEAN] : n \in 0..MaxVideoSegs}
    /\ tv_i = 0
    /\ cur_sentence = <<>>
    /\ cur_time_start = 0
    /\ transcription = NoTranscription
    /\ tv_status = "running"
    /\ vpc = "call"

\* lines 31-41: the checks of the arguments, the device, the model
LoadModel ==
    /\ vpc = "call"
    /\ IF tv_lang \notin {"en", "ru"} \/ tv_model \notin {"server", "local"}
       THEN /\ tv_status' = "NotImplementedError"
            /\ vpc' = "done"
            /\ UNCHANGED tv_loaded
       ELSE /\ tv_loaded' =
                Some([size |-> IF tv_model = "server" THEN "medium" ELSE "small",
                      device |-> IF tv_device # None THEN tv_device[1] ELSE "cpu"])
            /\ vpc' = "transcribe"
            /\ UNCHANGED tv_status
    /\ UNCHANGED <<tv_lang, tv_model, tv_device, tv_language, tv_segments, tv_i,
                   cur_sentence, cur_time_start, transcription, notVideo>>

\* line 56: model.transcribe(video_path, language="ru", word_timestamps=True)
Transcribe ==
    /\ vpc = "transcribe"
    /\ tv_language' = Some("ru")
    /\ vpc' = "segments"
    /\ UNCHANGED <<tv_lang, tv_model, tv_device, tv_loaded, tv_segments, tv_i,
                   cur_sentence, cur_time_start, transcription, tv_status,
                   notVideo>>

\* lines 57-82: one turn of the loop over the segments
NextSegment ==
    /\ vpc = "segments"
    /\ tv_i < Len(tv_segments)
    /\ LET k == tv_i + 1
           time_start == IF Len(cur_sentence) = 0 THEN k - 1 ELSE cur_time_start
           sentence == Append(cur_sentence, k)
       IN  /\ cur_time_start' = time_start
           /\ cur_sentence' = IF tv_segments[k] THEN <<>> ELSE sentence
           /\ transcription' =
                  [stamps |-> Append(transcription.stamps, <<k - 1, k>>),
                   sentences |->
                       IF tv_segments[k]
                       THEN Append(transcription.sentences,
                                   [time_start |-> time_start, text |-> sentence,
                                    time_end |-> k])
                       ELSE transcription.sentences]
           /\ tv_i' = k
    /\ UNCHANGED <<tv_lang, tv_model, tv_device, tv_loaded, tv_language,
                   tv_segments, tv_status, vpc, notVideo>>

\* lines 83-85
ReturnTranscription ==
    /\ vpc = "segments"
    /\ tv_i = Len(tv_segments)
    /\ tv_status' = "returned"
    /\ vpc' = "done"
    /\ UNCHANGED <<tv_lang, tv_model, tv_device, tv_loaded, tv_language,
                   tv_segments, tv_i, cur_sentence, cur_time_start,
                   transcription, notVideo>>

NextVideo == LoadModel \/ Transcribe \/ NextSegment \/ ReturnTranscription

SpecVideo == InitVideo /\ [][NextVideo]_vars

ValidArguments == tv_lang \in {"en", "ru"} /\ tv_model \in {"server", "local"}

\* C17: for a valid lang the speech is recognized in the language lang; any
\* other lang, or a model other than 'server' and 'local', raises
\* NotImplementedError.
C17_RecognitionInLang ==
    /\ (ValidArguments /\ tv_language # None) => tv_language = Some(tv_lang)
    /\ (ValidArguments /\ vpc = "done") => tv_status = "returned"
    /\ (~ValidArguments /\ vpc # "call") => tv_status = "NotImplementedError"

\* C17, what the code keeps: the arguments are checked as the claim says, and
\* the speech is recognized in Russian whatever lang is.
C17_RecognitionInRussian ==
    /\ (ValidArguments /\ tv_language # None) => tv_language = Some("ru")
    /\ (ValidArguments /\ vpc = "done") => tv_status = "returned"
    /\ (~ValidArguments /\ vpc # "call") => tv_status = "NotImplementedError"

---------------------------------------------------------------------------
\* The costs of perform_word_alignment (lines 1129-1162).
\*
\* weights[i][j] is the cost of token i - 1 at frame j - 1 of the window
\* (Python counts from 0).  After line 1143 every cost is the negation of a
\* normalized softmax output, hence strictly negative; 0 is the worst cost.

NumTokens == 2
NumFrames == 3
MaxRefine == 2
MaxCost == 2      \* the costs of the model range over -MaxCost..-1

\* line 1144
worse_weight == 0

Costs == (0 - MaxCost)..-1

CostMatrices == [1..NumTokens -> [1..NumFrames -> Costs]]

\* weights.min()
WeightsMin(w) ==
    CHOOSE c \in {w[i][j] : i \in 1..Len(w), j \in 1..NumFrames} :
        \A i \in 1..Len(w), j \in 1..NumFrames : c <= w[i][j]

\* line 1158: weights[:-1, max_duration:] = worse_weight
limit_duration(w, d) ==
    [i \in 1..Len(w) |->
        [j \in 1..NumFrames |->
            IF i < Len(w) /\ j - 1 >= d THEN worse_weight ELSE w[i][j]]]

\* line 1161: weights[0, 0] = weights.min()
first_cell_to_min(w) == [w EXCEPT ![1][1] = WeightsMin(w)]

\* line 1162: weights[0, refine_whisper_precision_nframes * 2 :] = worse_weight
flatten_first_row(w, refine) ==
    [w EXCEPT ![1] = [j \in 1..NumFrames |->
                         IF j - 1 >= refine * 2 THEN worse_weight ELSE @[j]]]

\* lines 1160-1162
encourage_start_early(w, refine) ==
    flatten_first_row(first_cell_to_min(w), refine)

InitBias ==
    /\ PhrasesIdle
    /\ HooksIdle
    /\ OutputIdle
    /\ RepairIdle
    /\ SplitIdle
    /\ AccIdle
    /\ ConfIdle
    /\ AlignIdle
    /\ BetweenIdle
    /\ VideoIdle
    /\ weights \in CostMatrices
    /\ w_refine \in 0..MaxRefine
    /\ w_max_duration \in {None} \cup {Some(d) : d \in 0..NumFrames}
    /\ w_start_token \in 0..1
    /\ wpc = "weights"

\* lines 1153-1158
EnforceMaxDuration ==
    /\ wpc = "weights"
    /\ weights' =
           IF /\ w_max_duration # None
              /\ w_max_duration[1] # 0
              /\ w_start_token < w_max_duration[1]
           THEN limit_duration(weights, w_max_duration[1])
           ELSE weights
    /\ wpc' = "limited"
    /\ UNCHANGED <<w_refine, w_max_duration, w_start_token>>
    /\ UNCHANGED notBias

\* lines 1160-1162
EncourageStartEarly ==
    /\ wpc = "limited"
    /\ weights' = encourage_start_early(weights, w_refine)
    /\ wpc' = "biased"
    /\ UNCHANGED <<w_refine, w_max_duration, w_start_token>>
    /\ UNCHANGED notBias

NextBias == EnforceMaxDuration \/ EncourageStartEarly

SpecBias == InitBias /\ [][NextBias]_vars

\* C32: after the start-early step, for every margin >= 0, the cost of the
\* first token at the first frame is the lowest cost of the matrix, and the
\* first token has the worst cost at every frame from 2 * margin on.
C32_StartEarlyBias ==
    wpc = "biased" =>
        /\ weights[1][1] = WeightsMin(weights)
        /\ \A j \in 1..NumFrames :
               j - 1 >= w_refine * 2 => weights[1][j] = worse_weight

\* What the code keeps: the flat part of the first row for every margin, the
\* lowest cost in the first cell for a margin of one frame or more.
C32_StartEarlyBiasWithMargin ==
    wpc = "biased" =>
        /\ w_refine >= 1 => weights[1][1] = WeightsMin(weights)
        /\ w_refine = 0 => weights[1][1] = worse_weight
        /\ \A j \in 1..NumFrames :
               j - 1 >= w_refine * 2 => weights[1][j] = worse_weight

---------------------------------------------------------------------------
\* The end of transcribe_timestamped (lines 196-219): the words of null
\* duration that end a chunk are removed, the word times are repaired, and
\* the words are attached to their segments.
\*
\* A segment is [seek, text, id, start, end, words]: id is the position the
\* segment had in the list of line 187 (counted from 0), text is the list of
\* the words its text is made of, followed by text.extra characters that no
\* word holds (the text that was shortened, lines 892-905); start and end are
\* None as long as they are the ones Whisper gave.  A word is
\* [start, end, idx_segment, id]; idx_segment counts from 0 as in the code.
\* Every word has two characters or more.

MaxOutSegs == 3
MaxOutWords == 3
MaxOutTime == 2
MaxExtra == 2

\* lines 1295-1302
segments_groups(segs) ==
    [i \in 0..(Len(segs) - 1) |->
        Cardinality({k \in 1..i : segs[k + 1].seek # segs[k].seek})]

RemoveAt(seq, k) == SubSeq(seq, 1, k - 1) \o SubSeq(seq, k + 1, Len(seq))

\* lines 1326-1335: the text without the word, or None when it does not end
\* with the word
shorten_text(text, word) ==
    IF text.words = <<>> \/ Last(text.words) # word.id THEN None
    ELSE IF text.extra = 0 THEN Some([words |-> Front(text.words), extra |-> 0])
    ELSE IF text.extra = 1 THEN Some([words |-> Front(text.words), extra |-> 0])
    ELSE None

\* is_last_empty taken from the word alone.
last_empty_of_word(st, group, empty) == empty

\* lines 1313-1317
last_empty_after(st, group, empty) ==
    IF st.current_chunk # group THEN empty
    ELSE IF ~empty THEN FALSE ELSE st.is_last_empty

\* The removal that leaves idx_segment of the later words as it is.
remove_word_keeping_indices(st, i, text) ==
    LET idx_segment == st.words[i].idx_segment
    IN  IF i > 1 /\ st.words[i - 1].idx_segment = idx_segment
        THEN [st EXCEPT !.segments[idx_segment + 1].text = text,
                        !.to_remove = Append(@, i)]
        ELSE [st EXCEPT !.segments = RemoveAt(@, idx_segment + 1),
                        !.to_remove = Append(@, i)]

\* lines 1336-1343: the word i (counted from 1) of st.words is removed
remove_word(st, i, text) ==
    LET idx_segment == st.words[i].idx_segment
    IN  IF i > 1 /\ st.words[i - 1].idx_segment = idx_segment
        THEN [st EXCEPT !.segments[idx_segment + 1].text = text,
                        !.to_remove = Append(@, i)]
        ELSE [st EXCEPT !.segments = RemoveAt(@, idx_segment + 1),
                        !.words = [j \in 1..Len(@) |->
                                      IF j > i
                                      THEN [@[j] EXCEPT !.idx_segment = @ - 1]
                                      ELSE @[j]],
                        !.to_remove = Append(@, i)]

\* lines 1308-1344, from the word i (counted from 1) down to the first one
\* st = [segments, words, current_chunk, is_last_empty, to_remove, err]
RECURSIVE RemoveLoop(_, _, _)
RemoveLoop(st, i, groups) ==
    IF st.err # "none" \/ i = 0 THEN st
    ELSE
      LET word == st.words[i]
          empty == word.start = word.end
          idx_segment == word.idx_segment
      IN  IF idx_segment \notin DOMAIN groups
          THEN [st EXCEPT !.err = "KeyError"]
          ELSE
            LET group == groups[idx_segment]
                st1 == [st EXCEPT !.is_last_empty = last_empty_after(st, group, empty),
                                  !.current_chunk = group]
            IN  IF ~st1.is_last_empty THEN RemoveLoop(st1, i - 1, groups)
                ELSE IF idx_segment + 1 \notin 1..Len(st1.segments)
                THEN [st1 EXCEPT !.err = "IndexError"]
                ELSE
                  LET text == shorten_text(st1.segments[idx_segment + 1].text, word)
                  IN  IF text = None THEN [st1 EXCEPT !.err = "RuntimeError"]
                      ELSE RemoveLoop(remove_word(st1, i, text[1]), i - 1, groups)

\* lines 1346-1347
RECURSIVE PopAll(_, _)
PopAll(ws, to_remove) ==
    IF to_remove = <<>> THEN ws
    ELSE PopAll(RemoveAt(ws, Head(to_remove)), Tail(to_remove))

\* remove_last_null_duration_words(transcription, words, recompute_text=True);
\* transcription["text"] is the join of the texts of the segments returned.
remove_last_null_duration_words(segs, ws) ==
    LET st == RemoveLoop([segments |-> segs, words |-> ws, current_chunk |-> -1,
                          is_last_empty |-> FALSE, to_remove |-> <<>>,
                          err |-> "none"],
                         Len(ws), segments_groups(segs))
    IN  [st EXCEPT !.words = IF st.err = "none" THEN PopAll(@, st.to_remove) ELSE @]

\* The inputs: every segment holds a word or more (lines 439-441), the words
\* follow the order of the segments (lines 875-912), the segments of a chunk
\* follow each other, no word ends before it starts.
OutTimes == {2 * c : c \in 0..MaxOutTime}

OutWordTimes == {t \in [start : OutTimes, end : OutTimes] : t.start <= t.end}

SegmentsOfWords(n, k) ==
    {f \in [1..n -> 0..(k - 1)] :
        /\ f[1] = 0
        /\ f[n] = k - 1
        /\ \A j \in 1..(n - 1) : f[j + 1] \in {f[j], f[j] + 1}}

SeeksOf(k) ==
    {f \in [1..k -> 0..(k - 1)] :
        /\ f[1] = 0
        /\ \A j \in 1..(k - 1) : f[j + 1] \in {f[j], f[j] + 1}}

WordIds(f, i) == {j \in DOMAIN f : f[j] = i}

RECURSIVE Ascending(_)
Ascending(S) ==
    IF S = {} THEN <<>>
    ELSE LET x == CHOOSE y \in S : \A z \in S : y <= z
         IN  <<x>> \o Ascending(S \ {x})

InitOutput ==
    /\ PhrasesIdle
    /\ HooksIdle
    /\ BiasIdle
    /\ RepairIdle
    /\ SplitIdle
    /\ AccIdle
    /\ ConfIdle
    /\ AlignIdle
    /\ BetweenIdle
    /\ VideoIdle
    /\ \E n \in 1..MaxOutWords, k \in 1..MaxOutSegs :
         /\ k <= n
         /\ \E f \in SegmentsOfWords(n, k), sk \in SeeksOf(k),
               x \in [1..k -> 0..MaxExtra], t \in [1..n -> OutWordTimes] :
              /\ out_segments =
                     [i \in 1..k |->
                         [seek |-> sk[i], id |-> i - 1,
                          text |-> [words |-> Ascending(WordIds(f, i - 1)),
                                    extra |-> x[i]],
                          start |-> None, end |-> None, words |-> <<>>]]
              /\ out_words =
                     [j \in 1..n |->
                         [start |-> t[j].start, end |-> t[j].end,
                          idx_segment |-> f[j], id |-> j]]
    /\ out_refine = FALSE
    /\ out_min_duration = 0
    /\ out_tie = "down"
    /\ out_input = [segments |-> out_segments, words |-> out_words]
    /\ out_status = "none"
    /\ opc = "words"

\* lines 196-198
RemoveLastNullDurationWords ==
    /\ opc = "words"
    /\ LET st == remove_last_null_duration_words(out_segments, out_words)
       IN  /\ out_segments' = st.segments
           /\ out_words' = st.words
           /\ out_status' = st.err
           /\ opc' = IF st.err = "none" THEN "pruned" ELSE "error"
    /\ UNCHANGED <<out_refine, out_min_duration, out_tie, out_input>>
    /\ UNCHANGED notOutput

WordTimes(ws) == [j \in 1..Len(ws) |-> [start |-> ws[j].start, end |-> ws[j].end]]

\* line 200; min_word_duration and the direction of round() are read here
EnsureIncreasingPositions ==
    /\ opc = "pruned"
    /\ out_min_duration' \in {0, 2}
    /\ out_tie' \in Ties
    /\ LET r == ensure_increasing_positions(WordTimes(out_words),
                                            out_min_duration', out_tie', MaxPasses)
       IN  /\ out_words' = [j \in 1..Len(out_words) |->
                               [out_words[j] EXCEPT !.start = r.segs[j].start,
                                                    !.end = r.segs[j].end]]
           /\ out_status' = IF r.status = "ok" THEN "none"
                            ELSE IF r.status = "assert" THEN "AssertionError"
                            ELSE "RecursionError"
           /\ opc' = IF r.status = "ok" THEN "repaired" ELSE "error"
    /\ UNCHANGED <<out_segments, out_refine, out_input>>
    /\ UNCHANGED notOutput

\* The attachment that moves the start of the segment at every word.
attach_word_keeping_start(segs, word, refine) ==
    LET k == word.idx_segment + 1
        w == [start |-> word.start, end |-> word.end, id |-> word.id]
    IN  [segs EXCEPT ![k].words = Append(@, w),
                     ![k].start = IF refine THEN Some(word.start) ELSE @,
                     ![k].end = IF refine THEN Some(word.end) ELSE @]

\* lines 208-217, for one word
attach_word(segs, word, refine) ==
    LET k == word.idx_segment + 1
        w == [start |-> word.start, end |-> word.end, id |-> word.id]
        first == segs[k].words = <<>>
    IN  [segs EXCEPT ![k].words = Append(@, w),
                     ![k].start = IF first /\ refine THEN Some(word.start) ELSE @,
                     ![k].end = IF refine THEN Some(word.end) ELSE @]

\* lines 202-217
RECURSIVE AttachLoop(_, _, _)
AttachLoop(st, ws, refine) ==
    IF ws = <<>> \/ st.err # "none" THEN st
    ELSE IF Head(ws).idx_segment + 1 \notin 1..Len(st.segments)
    THEN [st EXCEPT !.err = "IndexError"]
    ELSE AttachLoop([st EXCEPT !.segments = attach_word(@, Head(ws), refine)],
                    Tail(ws), refine)

\* lines 202-219; refine_whisper_precision is read here
AttachWords ==
    /\ opc = "repaired"
    /\ out_refine' \in BOOLEAN
    /\ LET st == AttachLoop([segments |-> out_segments, err |-> "none"],
                            out_words, out_refine')
       IN  /\ out_segments' = st.segments
           /\ out_status' = IF st.err = "none" THEN "returned" ELSE st.err
           /\ opc' = IF st.err = "none" THEN "done" ELSE "error"
    /\ UNCHANGED <<out_words, out_min_duration, out_tie, out_input>>
    /\ UNCHANGED notOutput

NextOutput == RemoveLastNullDurationWords \/ EnsureIncreasingPositions \/ AttachWords

SpecOutput == InitOutput /\ [][NextOutput]_vars

\* The chunk of the word j of the input: the seek of its segment.
SeekOfWord(j) == out_input.segments[out_input.words[j].idx_segment + 1].seek

\* The word j of the input has a null duration, and so has every later word
\* of its chunk.
EndsChunkWithNullDuration(j) ==
    \A j2 \in j..Len(out_input.words) :
        SeekOfWord(j2) = SeekOfWord(j) =>
            out_input.words[j2].start = out_input.words[j2].end

KeptWords == {out_words[i].id : i \in 1..Len(out_words)}

\* C33: remove_last_null_duration_words removes a word exactly when it has a
\* null duration and so has every later word of the same chunk; the words kept
\* keep their order (and their times).
C33_RemovesTrailingNullWords ==
    opc = "pruned" =>
        /\ \A j \in 1..Len(out_input.words) :
               j \notin KeptWords <=> EndsChunkWithNullDuration(j)
        /\ \A i \in 1..Len(out_words) :
               /\ i > 1 => out_words[i - 1].id < out_words[i].id
               /\ out_words[i].start = out_input.words[out_words[i].id].start
               /\ out_words[i].end = out_input.words[out_words[i].id].end

\* A word of null duration is kept because a later word of its chunk has a
\* duration, and a word of null duration that ends the chunk is removed.
C33_Witness ==
    /\ opc = "pruned"
    /\ \E j \in KeptWords :
           /\ out_input.words[j].start = out_input.words[j].end
           /\ \E j2 \in (j + 1)..Len(out_input.words) :
                  /\ SeekOfWord(j2) = SeekOfWord(j)
                  /\ out_input.words[j2].start < out_input.words[j2].end
    /\ \E j \in 1..Len(out_input.words) : j \notin KeptWords

KeptSegments == {out_segments[k].id : k \in 1..Len(out_segments)}

\* The words the segment s of the input was aligned with.
WordsOfSegment(s) ==
    {j \in 1..Len(out_input.words) : out_input.words[j].idx_segment = s}

\* C36: after remove_last_null_duration_words, idx_segment of every word left
\* is an index of the list of segments left and designates the segment the
\* word was aligned in; every segment left has a word; a segment is removed
\* exactly when all of its words were removed.
C36_IndicesFollowTheSegments ==
    opc = "pruned" =>
        /\ \A i \in 1..Len(out_words) :
               /\ out_words[i].idx_segment \in 0..(Len(out_segments) - 1)
               /\ out_segments[out_words[i].idx_segment + 1].id =
                      out_input.words[out_words[i].id].idx_segment
        /\ \A k \in 1..Len(out_segments) :
               \E i \in 1..Len(out_words) : out_words[i].idx_segment = k - 1
        /\ \A s \in 0..(Len(out_input.segments) - 1) :
               s \notin KeptSegments <=> WordsOfSegment(s) \cap KeptWords = {}

\* A segment was removed and a word of a later segment was kept.
C36_Witness ==
    /\ opc = "pruned"
    /\ \E s \in 0..(Len(out_input.segments) - 1) :
           /\ s \notin KeptSegments
           /\ \E i \in 1..Len(out_words) :
                  /\ out_input.words[out_words[i].id].idx_segment > s
                  /\ out_words[i].idx_segment <
                         out_input.words[out_words[i].id].idx_segment

\* The words of the output, in the order of the list the repair returned.
WordsAttachedTo(k) ==
    LET S == {i \in 1..Len(out_words) : out_words[i].idx_segment = k - 1}
        order == Ascending(S)
    IN  [n \in 1..Len(order) |->
            [start |-> out_words[order[n]].start, end |-> out_words[order[n]].end,
             id |-> out_words[order[n]].id]]

\* C37: with a refine_whisper_precision that is not zero, every segment of
\* the output starts with its first word and ends with its last word, hence
\* no segment ends after the next one starts; the words of a segment are in
\* the order they were aligned in.
C37_SegmentsSpanTheirWords ==
    (opc = "done" /\ out_refine) =>
        \A k \in 1..Len(out_segments) :
            LET seg == out_segments[k]
            IN  /\ seg.words # <<>>
                /\ seg.words = WordsAttachedTo(k)
                /\ seg.start = Some(Head(seg.words).start)
                /\ seg.end = Some(Last(seg.words).end)
                /\ \A n \in 2..Len(seg.words) :
                       /\ seg.words[n - 1].id < seg.words[n].id
                       /\ seg.words[n - 1].end <= seg.words[n].start
                /\ k > 1 => out_segments[k - 1].end[1] <= seg.start[1]

\* A segment of two words follows another segment in the output.
C37_Witness ==
    /\ opc = "done"
    /\ out_refine
    /\ Len(out_segments) = 2
    /\ Len(out_segments[2].words) = 2
    /\ out_segments[1].start # out_segments[1].end

---------------------------------------------------------------------------
\* The hooks of _transcribe_timestamped_efficient (lines 809-837).
\*
\* A hook is [fn, index]: the function registered and, for
\* hook_attention_weights, the index its lambda was given (-1 otherwise).
\* Registering a hook on a layer adds it to the hooks of the model and
\* returns its handle, which the model names by the hook itself.

MaxBlocks == 3
MaxForward == 2

Hook(fn, index) == [fn |-> fn, index |-> index]

HookExceptions == {"AssertionError", "RuntimeError", "IndexError"}

Handles(handles) == {handles[k] : k \in 1..Len(handles)}

\* A try statement without its finally clause: the hooks are removed when
\* nothing was raised.
hooks_after_return(hooks, handles, exc) ==
    IF exc = "none" THEN hooks \ Handles(handles) ELSE hooks

\* lines 834-837: for hook in all_hooks: hook.remove()
hooks_after_finally(hooks, handles, exc) == hooks \ Handles(handles)

InitHooks ==
    /\ PhrasesIdle
    /\ OutputIdle
    /\ BiasIdle
    /\ RepairIdle
    /\ SplitIdle
    /\ AccIdle
    /\ ConfIdle
    /\ AlignIdle
    /\ BetweenIdle
    /\ VideoIdle
    /\ model_hooks = {}
    /\ all_hooks = <<>>
    /\ h_nblocks \in 1..MaxBlocks
    /\ h_top_layers \in {None} \cup {Some(n) : n \in 1..MaxBlocks}
    /\ h_logits \in BOOLEAN
    /\ h_i = 0
    /\ h_j = 0
    /\ h_forward = 0
    /\ h_exc = "none"
    /\ hpc = "try"

\* lines 811-817
RegisterInputHooks ==
    /\ hpc = "try"
    /\ all_hooks' = <<Hook("hook_mfcc", -1), Hook("hook_input_tokens", -1)>>
    /\ model_hooks' = model_hooks \cup Handles(all_hooks')
    /\ h_i' = 0
    /\ h_j' = 0
    /\ hpc' = "blocks"
    /\ UNCHANGED <<h_nblocks, h_top_layers, h_logits, h_forward, h_exc>>
    /\ UNCHANGED notHooks

\* lines 818-828: one block of the loop
RegisterAttentionHook ==
    /\ hpc = "blocks"
    /\ h_i < h_nblocks
    /\ IF h_top_layers # None /\ h_i < h_nblocks - h_top_layers[1]
       THEN UNCHANGED <<all_hooks, model_hooks, h_j>>
       ELSE /\ all_hooks' = Append(all_hooks, Hook("hook_attention_weights", h_j))
            /\ model_hooks' = model_hooks \cup {Hook("hook_attention_weights", h_j)}
            /\ h_j' = h_j + 1
    /\ h_i' = h_i + 1
    /\ UNCHANGED <<h_nblocks, h_top_layers, h_logits, h_forward, h_exc, hpc>>
    /\ UNCHANGED notHooks

\* lines 829-830
RegisterOutputHook ==
    /\ hpc = "blocks"
    /\ h_i = h_nblocks
    /\ IF h_logits
       THEN /\ all_hooks' = Append(all_hooks, Hook("hook_output_logits", -1))
            /\ model_hooks' = model_hooks \cup {Hook("hook_output_logits", -1)}
       ELSE UNCHANGED <<all_hooks, model_hooks>>
    /\ hpc' = "transcribe"
    /\ UNCHANGED <<h_nblocks, h_top_layers, h_logits, h_i, h_j, h_forward, h_exc>>
    /\ UNCHANGED notHooks

\* line 832: a forward pass of the model inside model.transcribe; the hooks
\* on the model run, and one of them may raise
ForwardPass ==
    /\ hpc = "transcribe"
    /\ h_forward < MaxForward
    /\ h_forward' = h_forward + 1
    /\ \/ UNCHANGED <<h_exc, hpc>>
       \/ /\ model_hooks # {}
          /\ h_exc' \in HookExceptions
          /\ hpc' = "finally"
    /\ UNCHANGED <<model_hooks, all_hooks, h_nblocks, h_top_layers, h_logits,
                   h_i, h_j>>
    /\ UNCHANGED notHooks

\* line 832: model.transcribe returns, or raises by itself
TranscribeEnds ==
    /\ hpc = "transcribe"
    /\ h_exc' \in {"none", "Exception"}
    /\ hpc' = "finally"
    /\ UNCHANGED <<model_hooks, all_hooks, h_nblocks, h_top_layers, h_logits,
                   h_i, h_j, h_forward>>
    /\ UNCHANGED notHooks

\* lines 834-837; then the function goes on (line 839) or the exception
\* leaves it
RemoveHooks ==
    /\ hpc = "finally"
    /\ model_hooks' = hooks_after_finally(model_hooks, all_hooks, h_exc)
    /\ hpc' = IF h_exc = "none" THEN "finalize" ELSE "propagated"
    /\ UNCHANGED <<all_hooks, h_nblocks, h_top_layers, h_logits, h_i, h_j,
                   h_forward, h_exc>>
    /\ UNCHANGED notHooks

NextHooks ==
    \/ RegisterInputHooks
    \/ RegisterAttentionHook
    \/ RegisterOutputHook
    \/ ForwardPass
    \/ TranscribeEnds
    \/ RemoveHooks

SpecHooks == InitHooks /\ [][NextHooks]_vars

\* C38: every forward hook registered on the model is removed before the
\* function goes on after model.transcribe or lets an exception raised during
\* model.transcribe leave it, an exception raised inside a hook included; the
\* handles of all_hooks are those of the hooks on the model until then.
C38_HooksAreRemoved ==
    /\ hpc \in {"finalize", "propagated"} => model_hooks = {}
    /\ hpc \in {"blocks", "transcribe", "finally"} =>
           model_hooks = Handles(all_hooks)

\* A hook raised during model.transcribe, with the hooks of two blocks and of
\* the logits registered, and the exception has left the function.
C38_Witness ==
    /\ hpc = "propagated"
    /\ h_exc = "AssertionError"
    /\ Len(all_hooks) >= 5
    /\ h_forward = 2

---------------------------------------------------------------------------
\* get_phrases of speech_to_text.py (lines 103-144).
\*
\* A word is [start, end, text]; the text of a word is its position in the
\* list handed over, and the text of a phrase the list of the texts of its
\* words (the code joins them with " ").

MaxPhraseWords == 3
MaxPhraseTime == 6
MaxDuration == 3

\* The words of a transcription: each one lasts, none starts before the one
\* before it ends.
PhraseTimes == 0..MaxPhraseTime

PhraseWordLists ==
    {l \in UNION {[1..n -> [start : PhraseTimes, end : PhraseTimes]] :
                     n \in 0..MaxPhraseWords} :
        /\ \A k \in 1..Len(l) : l[k].start < l[k].end
        /\ \A k \in 1..(Len(l) - 1) : l[k].end <= l[k + 1].start}

\* lines 130-134: st = [words, phrase, time_left, end_time, elem]
RECURSIVE TakeWords(_)
TakeWords(st) ==
    IF st.time_left > 0 /\ st.words # <<>>
    THEN LET elem == Head(st.words)
         IN  TakeWords([words |-> Tail(st.words),
                        phrase |-> Append(st.phrase, elem.text),
                        time_left |-> st.time_left - (elem.end - st.end_time),
                        end_time |-> elem.end,
                        elem |-> Some(elem)])
    ELSE st

\* line 140: "time_end": elem["end"], None when elem is not bound
phrase_end(st) ==
    IF st.elem = None THEN None ELSE Some(st.elem[1].end)

InitPhrases ==
    /\ HooksIdle
    /\ OutputIdle
    /\ BiasIdle
    /\ RepairIdle
    /\ SplitIdle
    /\ AccIdle
    /\ ConfIdle
    /\ AlignIdle
    /\ BetweenIdle
    /\ VideoIdle
    /\ \E l \in PhraseWordLists :
           ph_words = [k \in 1..Len(l) |->
                          [start |-> l[k].start, end |-> l[k].end, text |-> k]]
    /\ ph_duration \in 1..MaxDuration
    /\ phrases = <<>>
    /\ ph_elem = None
    /\ ph_input = ph_words
    /\ ph_status = "none"
    /\ ppc = "call"

\* lines 110-112
CallGetPhrases ==
    /\ ppc = "call"
    /\ IF Len(ph_words) > 1
       THEN ppc' = "loop" /\ ph_status' = "none"
       ELSE ppc' = "error" /\ ph_status' = "AssertionError"
    /\ UNCHANGED <<ph_words, ph_duration, phrases, ph_elem, ph_input>>
    /\ UNCHANGED notPhrases

\* lines 114-142: one turn of the outer loop
TakePhrase ==
    /\ ppc = "loop"
    /\ ph_words # <<>>
    /\ LET init_elem == Head(ph_words)
           time_left == ph_duration - (init_elem.end - init_elem.start)
       IN  IF time_left < 0
           THEN /\ phrases' = Append(phrases,
                                     [time_start |-> init_elem.start,
                                      text |-> <<init_elem.text>>,
                                      time_end |-> init_elem.end])
                /\ ph_words' = Tail(ph_words)
                /\ UNCHANGED <<ph_elem, ph_status, ppc>>
           ELSE
             LET st == TakeWords([words |-> Tail(ph_words),
                                  phrase |-> <<init_elem.text>>,
                                  time_left |-> time_left,
                                  end_time |-> init_elem.end,
                                  elem |-> ph_elem])
                 time_end == phrase_end(st)
             IN  /\ ph_words' = st.words
                 /\ ph_elem' = st.elem
                 /\ IF time_end = None
                    THEN /\ ppc' = "error"
                         /\ ph_status' = "UnboundLocalError"
                         /\ UNCHANGED phrases
                    ELSE /\ phrases' = Append(phrases,
                                              [time_start |-> init_elem.start,
                                               text |-> st.phrase,
                                               time_end |-> time_end[1]])
                         /\ UNCHANGED <<ph_status, ppc>>
    /\ UNCHANGED <<ph_duration, ph_input>>
    /\ UNCHANGED notPhrases

\* line 144
ReturnPhrases ==
    /\ ppc = "loop"
    /\ ph_words = <<>>
    /\ ppc' = "done"
    /\ ph_status' = "returned"
    /\ UNCHANGED <<ph_words, ph_duration, phrases, ph_elem, ph_input>>
    /\ UNCHANGED notPhrases

NextPhrases == CallGetPhrases \/ TakePhrase \/ ReturnPhrases

SpecPhrases == InitPhrases /\ [][NextPhrases]_vars

\* The phrase p goes from the start of its first word to the end of its last.
SpansItsWords(p) ==
    /\ p.text # <<>>
    /\ p.time_start = ph_input[Head(p.text)].start
    /\ p.time_end = ph_input[Last(p.text)].end
    /\ p.time_start <= p.time_end

\* Every word is in one phrase, in the order of the list.
PhrasesHoldTheWords ==
    Concat([k \in 1..Len(phrases) |-> phrases[k].text]) =
        [k \in 1..Len(ph_input) |-> k]

\* C39: get_phrases ends for every list of two words or more, and returns
\* phrases that go from the start of their first word to the end of their
\* last word, the phrase made of the one word left at the end included.
C39_PhrasesSpanTheirWords ==
    /\ ppc = "error" => Len(ph_input) <= 1
    /\ ppc \in {"call", "loop"} => ENABLED NextPhrases
    /\ \A k \in 1..Len(phrases) : SpansItsWords(phrases[k])
    /\ ppc = "done" => PhrasesHoldTheWords

\* What the code keeps: the call ends, by a return or by an exception; a
\* phrase of two words or more, and a phrase of one word longer than
\* duration, go from the start of their first word to the end of their last.
C39_PhrasesOfSeveralWordsSpanThem ==
    /\ ppc \in {"call", "loop"} => ENABLED NextPhrases
    /\ \A k \in 1..Len(phrases) :
           LET p == phrases[k]
               w == ph_input[Head(p.text)]
           IN  (Len(p.text) > 1 \/ w.end - w.start > ph_duration) =>
                   SpansItsWords(p)
    /\ ppc = "done" => PhrasesHoldTheWords

=============================================================================
